---- MODULE Spec2Model ----
(***************************************************************************)
(* Chip ledger of the poker bot: the application services of               *)
(* application/services.py over the account, user and identity             *)
(* repositories, and the Telegram and Discord handlers that call them,     *)
(* with the table repository.  A service is an operator from the           *)
(* repositories' contents and the call's arguments to the contents         *)
(* afterwards and the value returned.  Spec has one action per service,    *)
(* SpecStoreFailure the transfers on a store whose update may fail, and    *)
(* SpecAdapters one action per command handler; the arguments are drawn    *)
(* from the sets below.                                                    *)
(***************************************************************************)
EXTENDS Integers, Sequences, FiniteSets, TLC

VARIABLES accounts, users, identities, tables, memberships, offered,
          threads, applied

vars == <<accounts, users, identities, tables, memberships, offered,
          threads, applied>>

(* ------------------------------ bounds -------------------------------- *)

\* Balances are unbounded integers in the program; the actions stop at this
\* magnitude.
MaxBalance == 1

\* The amounts tried are -1 .. MaxAmount.
MaxAmount == 2

Amounts == (-1) .. MaxAmount

Usernames == {"alice", "bob", "carol"}

\* The values uuid4().hex may return.
IdSeq == <<"id1", "id2", "id3">>

Ids == {IdSeq[i] : i \in 1 .. Len(IdSeq)}

\* The chat identities that issue commands: a Telegram user and a Discord user
\* with the same channel-native id.
Contexts ==
    { [provider |-> "telegram", provider_user_id |-> "1", first_name |-> "Al", last_name |-> ""],
      [provider |-> "discord", provider_user_id |-> "1", first_name |-> "Al", last_name |-> ""] }

(* ------------------------------ values -------------------------------- *)

\* Python's None where an object is expected, and where a string is expected.
None == [none |-> TRUE]

NoneStr == "<None>"

Account(id, username, password_hash) ==
    [id |-> id, username |-> username, password_hash |-> password_hash]

User(id, first_name, last_name, balance) ==
    [id |-> id, first_name |-> first_name, last_name |-> last_name, balance |-> balance]

BroadcastMessage(user_id, text) == [user_id |-> user_id, text |-> text]

OperationResult(success, error_message, broadcasts) ==
    [success |-> success, error_message |-> error_message, broadcasts |-> broadcasts]

InitiateBuyFromResult(success, error_message, source_user, candidates) ==
    [success |-> success, error_message |-> error_message,
     source_user |-> source_user, candidates |-> candidates]

\* The two listener threads main starts, one per chat platform.
Threads == {"telegram-bot", "discord-bot"}

\* A thread between two events.
Idle == [pc |-> "idle"]

\* The three repositories as one value.
Db(a, u, i) == [accounts |-> a, users |-> u, identities |-> i]

DB == Db(accounts, users, identities)

\* What a service leaves behind: the repositories and the value returned.
Outcome(db, res) == [db |-> db, result |-> res]

(* --------------------------- repositories ----------------------------- *)

\* AccountRepository: rows of Account.
get_by_username(db, username) ==
    IF \E a \in db.accounts : a.username = username
    THEN CHOOSE a \in db.accounts : a.username = username
    ELSE None

create_account(db, account) ==
    [db EXCEPT !.accounts = @ \cup {account}]

\* UserRepository: rows of User keyed by id.
add_user(db, user) ==
    [db EXCEPT !.users = (user.id :> user) @@ @]

get_user(db, user_id) ==
    IF user_id \in DOMAIN db.users THEN db.users[user_id] ELSE None

update_balance(db, user_id, delta) ==
    IF user_id \in DOMAIN db.users
    THEN [db EXCEPT !.users[user_id].balance = @ + delta]
    ELSE db

\* IdentityRepository: (provider, provider_user_id) -> account id.
set_external_identity(db, provider, provider_user_id, account_id) ==
    [db EXCEPT !.identities = (<<provider, provider_user_id>> :> account_id) @@ @]

clear_external_identity(db, provider, provider_user_id) ==
    [db EXCEPT !.identities =
        [k \in DOMAIN @ \ {<<provider, provider_user_id>>} |-> @[k]]]

find_user_by_external(db, provider, provider_user_id) ==
    IF <<provider, provider_user_id>> \in DOMAIN db.identities
    THEN get_user(db, db.identities[<<provider, provider_user_id>>])
    ELSE None

(* ----------------------------- services ------------------------------- *)

\* Faulty variant: zero passes the validation.
_validate_positive_amount_ZeroPasses(amount) ==
    IF amount < 0 THEN "Amount must be greater than zero." ELSE NoneStr

_validate_positive_amount(amount) ==
    IF amount <= 0 THEN "Amount must be greater than zero." ELSE NoneStr

\* Faulty variant: the provider is taken to be Telegram whatever the channel.
_get_logged_in_user_Telegram(db, external_ctx) ==
    find_user_by_external(db, "telegram", external_ctx.provider_user_id)

_get_logged_in_user(db, external_ctx) ==
    find_user_by_external(db, external_ctx.provider, external_ctx.provider_user_id)

\* Faulty variant: the registration path is taken whether or not the username
\* is known.
register_or_login_user_AlwaysCreate(db, external_ctx, username, account_id) ==
    LET registered ==
            add_user(create_account(db, Account(account_id, username, "")),
                     User(account_id, username, "", 0))
    IN  Outcome(set_external_identity(registered, external_ctx.provider,
                                      external_ctx.provider_user_id, account_id),
                OperationResult(TRUE, NoneStr, <<>>))

\* Faulty variant: the new User is named after the chat profile, not the username.
register_or_login_user_CtxName(db, external_ctx, username, account_id) ==
    LET existing == get_by_username(db, username)
        registered ==
            add_user(create_account(db, Account(account_id, username, "")),
                     User(account_id, external_ctx.first_name, external_ctx.last_name, 0))
        db1 == IF existing = None THEN registered ELSE db
        id == IF existing = None THEN account_id ELSE existing.id
    IN  Outcome(set_external_identity(db1, external_ctx.provider,
                                      external_ctx.provider_user_id, id),
                OperationResult(TRUE, NoneStr, <<>>))

\* Faulty variant: an identity that is already linked keeps its link.
register_or_login_user_KeepLink(db, external_ctx, username, account_id) ==
    LET existing == get_by_username(db, username)
        registered ==
            add_user(create_account(db, Account(account_id, username, "")),
                     User(account_id, username, "", 0))
        db1 == IF existing = None THEN registered ELSE db
        id == IF existing = None THEN account_id ELSE existing.id
    IN  IF _get_logged_in_user(db, external_ctx) # None
        THEN Outcome(db1, OperationResult(TRUE, NoneStr, <<>>))
        ELSE Outcome(set_external_identity(db1, external_ctx.provider,
                                           external_ctx.provider_user_id, id),
                     OperationResult(TRUE, NoneStr, <<>>))

\* account_id is the value uuid4().hex returns on the registration path.
\* A faulty register_or_login_user: the User row is written on the login path
\* too, with the balance of a new user.
register_or_login_user_ReAddsUser(db, external_ctx, username, account_id) ==
    LET existing == get_by_username(db, username)
        id == IF existing = None THEN account_id ELSE existing.id
        db1 == IF existing = None
               THEN create_account(db, Account(account_id, username, ""))
               ELSE db
        db2 == add_user(db1, User(id, username, "", 0))
    IN  Outcome(set_external_identity(db2, external_ctx.provider,
                                      external_ctx.provider_user_id, id),
                OperationResult(TRUE, NoneStr, <<>>))

register_or_login_user(db, external_ctx, username, account_id) ==
    LET existing == get_by_username(db, username)
        registered ==
            add_user(create_account(db, Account(account_id, username, "")),
                     User(account_id, username, "", 0))
        db1 == IF existing = None THEN registered ELSE db
        id == IF existing = None THEN account_id ELSE existing.id
    IN  Outcome(set_external_identity(db1, external_ctx.provider,
                                      external_ctx.provider_user_id, id),
                OperationResult(TRUE, NoneStr, <<>>))

\* Faulty variant: the link is cleared by channel-native id alone, on every
\* provider.
logout_external_identity_AnyProvider(db, external_ctx) ==
    Outcome([db EXCEPT !.identities =
                [k \in {x \in DOMAIN @ : x[2] # external_ctx.provider_user_id} |-> @[k]]],
            OperationResult(TRUE, NoneStr, <<>>))

logout_external_identity(db, external_ctx) ==
    Outcome(clear_external_identity(db, external_ctx.provider,
                                    external_ctx.provider_user_id),
            OperationResult(TRUE, NoneStr, <<>>))

\* Faulty variant: a caller who has not joined is answered with success.
buy_chips_from_bank_JoinOk(db, external_ctx, amount) ==
    LET error == _validate_positive_amount(amount)
        user == _get_logged_in_user(db, external_ctx)
    IN  IF error # NoneStr
        THEN Outcome(db, OperationResult(FALSE, error, <<>>))
        ELSE IF user = None
        THEN Outcome(db, OperationResult(TRUE,
                 "You must /join <username> <password> before buying chips.", <<>>))
        ELSE Outcome(update_balance(db, user.id, -amount),
                 OperationResult(TRUE, NoneStr,
                     << BroadcastMessage(user.id,
                            user.first_name \o " buys " \o ToString(amount)) >>))

\* Faulty variant: buying from the bank credits the caller.
buy_chips_from_bank_Credit(db, external_ctx, amount) ==
    LET error == _validate_positive_amount(amount)
        user == _get_logged_in_user(db, external_ctx)
    IN  IF error # NoneStr
        THEN Outcome(db, OperationResult(FALSE, error, <<>>))
        ELSE IF user = None
        THEN Outcome(db, OperationResult(FALSE,
                 "You must /join <username> <password> before buying chips.", <<>>))
        ELSE Outcome(update_balance(db, user.id, amount),
                 OperationResult(TRUE, NoneStr,
                     << BroadcastMessage(user.id,
                            user.first_name \o " buys " \o ToString(amount)) >>))

\* A faulty buy_chips_from_bank: a purchase the balance does not cover is
\* refused.
buy_chips_from_bank_Floor(db, external_ctx, amount) ==
    LET error == _validate_positive_amount(amount)
        user == _get_logged_in_user(db, external_ctx)
    IN  IF error # NoneStr
        THEN Outcome(db, OperationResult(FALSE, error, <<>>))
        ELSE IF user = None
        THEN Outcome(db, OperationResult(FALSE,
                 "You must /join <username> <password> before buying chips.", <<>>))
        ELSE IF user.balance < amount
        THEN Outcome(db, OperationResult(FALSE, "Insufficient balance.", <<>>))
        ELSE Outcome(update_balance(db, user.id, -amount),
                 OperationResult(TRUE, NoneStr,
                     << BroadcastMessage(user.id,
                            user.first_name \o " buys " \o ToString(amount)) >>))

buy_chips_from_bank(db, external_ctx, amount) ==
    LET error == _validate_positive_amount(amount)
        user == _get_logged_in_user(db, external_ctx)
    IN  IF error # NoneStr
        THEN Outcome(db, OperationResult(FALSE, error, <<>>))
        ELSE IF user = None
        THEN Outcome(db, OperationResult(FALSE,
                 "You must /join <username> <password> before buying chips.", <<>>))
        ELSE Outcome(update_balance(db, user.id, -amount),
                 OperationResult(TRUE, NoneStr,
                     << BroadcastMessage(user.id,
                            user.first_name \o " buys " \o ToString(amount)) >>))

\* Faulty variant: selling to the bank credits one chip too few.
sell_chips_to_bank_OneShort(db, external_ctx, amount) ==
    LET error == _validate_positive_amount(amount)
        user == _get_logged_in_user(db, external_ctx)
    IN  IF error # NoneStr
        THEN Outcome(db, OperationResult(FALSE, error, <<>>))
        ELSE IF user = None
        THEN Outcome(db, OperationResult(FALSE,
                 "You must /join <username> <password> before selling chips.", <<>>))
        ELSE Outcome(update_balance(db, user.id, amount - 1),
                 OperationResult(TRUE, NoneStr,
                     << BroadcastMessage(user.id,
                            user.first_name \o " sells " \o ToString(amount)) >>))

sell_chips_to_bank(db, external_ctx, amount) ==
    LET error == _validate_positive_amount(amount)
        user == _get_logged_in_user(db, external_ctx)
    IN  IF error # NoneStr
        THEN Outcome(db, OperationResult(FALSE, error, <<>>))
        ELSE IF user = None
        THEN Outcome(db, OperationResult(FALSE,
                 "You must /join <username> <password> before selling chips.", <<>>))
        ELSE Outcome(update_balance(db, user.id, amount),
                 OperationResult(TRUE, NoneStr,
                     << BroadcastMessage(user.id,
                            user.first_name \o " sells " \o ToString(amount)) >>))

\* Faulty variant: the credit goes to the buyer instead of the seller.
buy_chips_from_user_CreditBuyer(db, external_ctx, amount, counterparty_username) ==
    LET error == _validate_positive_amount(amount)
        buyer == _get_logged_in_user(db, external_ctx)
        seller_account == get_by_username(db, counterparty_username)
        seller == get_user(db, seller_account.id)
        text == buyer.first_name \o " buys " \o ToString(amount)
                    \o " from " \o seller.first_name
    IN  IF error # NoneStr
        THEN Outcome(db, OperationResult(FALSE, error, <<>>))
        ELSE IF buyer = None
        THEN Outcome(db, OperationResult(FALSE,
                 "You must /join <username> <password> before buying from another player.",
                 <<>>))
        ELSE IF seller_account = None
        THEN Outcome(db, OperationResult(FALSE, "Seller username not found.", <<>>))
        ELSE IF seller = None
        THEN Outcome(db, OperationResult(FALSE, "Seller user not found.", <<>>))
        ELSE IF buyer.id = seller.id
        THEN Outcome(db, OperationResult(FALSE, "You cannot buy chips from yourself.", <<>>))
        ELSE Outcome(update_balance(update_balance(db, buyer.id, -amount), buyer.id, amount),
                 OperationResult(TRUE, NoneStr,
                     << BroadcastMessage(buyer.id, text),
                        BroadcastMessage(seller.id, text) >>))

\* A faulty buy_chips_from_user: a username without an Account is treated as
\* no counterparty at all, and the chips are bought from the bank.
buy_chips_from_user_UnknownIsBank(db, external_ctx, amount, counterparty_username) ==
    LET error == _validate_positive_amount(amount)
        buyer == _get_logged_in_user(db, external_ctx)
        seller_account == get_by_username(db, counterparty_username)
        seller == get_user(db, seller_account.id)
        text == buyer.first_name \o " buys " \o ToString(amount)
                    \o " from " \o seller.first_name
    IN  IF error # NoneStr
        THEN Outcome(db, OperationResult(FALSE, error, <<>>))
        ELSE IF buyer = None
        THEN Outcome(db, OperationResult(FALSE,
                 "You must /join <username> <password> before buying from another player.",
                 <<>>))
        ELSE IF seller_account = None
        THEN buy_chips_from_bank(db, external_ctx, amount)
        ELSE IF seller = None
        THEN Outcome(db, OperationResult(FALSE, "Seller user not found.", <<>>))
        ELSE IF buyer.id = seller.id
        THEN Outcome(db, OperationResult(FALSE, "You cannot buy chips from yourself.", <<>>))
        ELSE Outcome(update_balance(update_balance(db, buyer.id, -amount), seller.id, amount),
                 OperationResult(TRUE, NoneStr,
                     << BroadcastMessage(buyer.id, text),
                        BroadcastMessage(seller.id, text) >>))

buy_chips_from_user(db, external_ctx, amount, counterparty_username) ==
    LET error == _validate_positive_amount(amount)
        buyer == _get_logged_in_user(db, external_ctx)
        seller_account == get_by_username(db, counterparty_username)
        seller == get_user(db, seller_account.id)
        text == buyer.first_name \o " buys " \o ToString(amount)
                    \o " from " \o seller.first_name
    IN  IF error # NoneStr
        THEN Outcome(db, OperationResult(FALSE, error, <<>>))
        ELSE IF buyer = None
        THEN Outcome(db, OperationResult(FALSE,
                 "You must /join <username> <password> before buying from another player.",
                 <<>>))
        ELSE IF seller_account = None
        THEN Outcome(db, OperationResult(FALSE, "Seller username not found.", <<>>))
        ELSE IF seller = None
        THEN Outcome(db, OperationResult(FALSE, "Seller user not found.", <<>>))
        ELSE IF buyer.id = seller.id
        THEN Outcome(db, OperationResult(FALSE, "You cannot buy chips from yourself.", <<>>))
        ELSE Outcome(update_balance(update_balance(db, buyer.id, -amount), seller.id, amount),
                 OperationResult(TRUE, NoneStr,
                     << BroadcastMessage(buyer.id, text),
                        BroadcastMessage(seller.id, text) >>))

\* A faulty sell_chips_to_user: the comparison of the two parties is missing.
sell_chips_to_user_SelfAllowed(db, external_ctx, amount, counterparty_username) ==
    LET error == _validate_positive_amount(amount)
        seller == _get_logged_in_user(db, external_ctx)
        buyer_account == get_by_username(db, counterparty_username)
        buyer == get_user(db, buyer_account.id)
        text == seller.first_name \o " sells " \o ToString(amount)
                    \o " to " \o buyer.first_name
    IN  IF error # NoneStr
        THEN Outcome(db, OperationResult(FALSE, error, <<>>))
        ELSE IF seller = None
        THEN Outcome(db, OperationResult(FALSE,
                 "You must /join <username> <password> before selling to another player.",
                 <<>>))
        ELSE IF buyer_account = None
        THEN Outcome(db, OperationResult(FALSE, "Buyer username not found.", <<>>))
        ELSE IF buyer = None
        THEN Outcome(db, OperationResult(FALSE, "Buyer user not found.", <<>>))
        ELSE Outcome(update_balance(update_balance(db, buyer.id, -amount), seller.id, amount),
                 OperationResult(TRUE, NoneStr,
                     << BroadcastMessage(seller.id, text),
                        BroadcastMessage(buyer.id, text) >>))

\* A faulty sell_chips_to_user: the notification text is the one of a purchase.
sell_chips_to_user_BuyWording(db, external_ctx, amount, counterparty_username) ==
    LET error == _validate_positive_amount(amount)
        seller == _get_logged_in_user(db, external_ctx)
        buyer_account == get_by_username(db, counterparty_username)
        buyer == get_user(db, buyer_account.id)
        text == buyer.first_name \o " buys " \o ToString(amount)
                    \o " from " \o seller.first_name
    IN  IF error # NoneStr
        THEN Outcome(db, OperationResult(FALSE, error, <<>>))
        ELSE IF seller = None
        THEN Outcome(db, OperationResult(FALSE,
                 "You must /join <username> <password> before selling to another player.",
                 <<>>))
        ELSE IF buyer_account = None
        THEN Outcome(db, OperationResult(FALSE, "Buyer username not found.", <<>>))
        ELSE IF buyer = None
        THEN Outcome(db, OperationResult(FALSE, "Buyer user not found.", <<>>))
        ELSE IF buyer.id = seller.id
        THEN Outcome(db, OperationResult(FALSE, "You cannot sell chips to yourself.", <<>>))
        ELSE Outcome(update_balance(update_balance(db, buyer.id, -amount), seller.id, amount),
                 OperationResult(TRUE, NoneStr,
                     << BroadcastMessage(seller.id, text),
                        BroadcastMessage(buyer.id, text) >>))

sell_chips_to_user(db, external_ctx, amount, counterparty_username) ==
    LET error == _validate_positive_amount(amount)
        seller == _get_logged_in_user(db, external_ctx)
        buyer_account == get_by_username(db, counterparty_username)
        buyer == get_user(db, buyer_account.id)
        text == seller.first_name \o " sells " \o ToString(amount)
                    \o " to " \o buyer.first_name
    IN  IF error # NoneStr
        THEN Outcome(db, OperationResult(FALSE, error, <<>>))
        ELSE IF seller = None
        THEN Outcome(db, OperationResult(FALSE,
                 "You must /join <username> <password> before selling to another player.",
                 <<>>))
        ELSE IF buyer_account = None
        THEN Outcome(db, OperationResult(FALSE, "Buyer username not found.", <<>>))
        ELSE IF buyer = None
        THEN Outcome(db, OperationResult(FALSE, "Buyer user not found.", <<>>))
        ELSE IF buyer.id = seller.id
        THEN Outcome(db, OperationResult(FALSE, "You cannot sell chips to yourself.", <<>>))
        ELSE Outcome(update_balance(update_balance(db, buyer.id, -amount), seller.id, amount),
                 OperationResult(TRUE, NoneStr,
                     << BroadcastMessage(seller.id, text),
                        BroadcastMessage(buyer.id, text) >>))

\* UserRepository.get_all_users: every row, in the order of IdSeq.
get_all_users(db) ==
    LET ids == SelectSeq(IdSeq, LAMBDA i : i \in DOMAIN db.users)
    IN  [i \in 1 .. Len(ids) |-> db.users[ids[i]]]

\* A faulty initiate_buy_from_player: the source user is not filtered out of
\* the candidates.
initiate_buy_from_player_IncludesSource(db, external_ctx, amount) ==
    LET error == _validate_positive_amount(amount)
        source_user == _get_logged_in_user(db, external_ctx)
        candidates == get_all_users(db)
    IN  IF error # NoneStr
        THEN Outcome(db, InitiateBuyFromResult(FALSE, error, None, <<>>))
        ELSE IF source_user = None
        THEN Outcome(db, InitiateBuyFromResult(FALSE,
                 "You must /join <username> <password> before buying from another player.",
                 None, <<>>))
        ELSE IF candidates = <<>>
        THEN Outcome(db, InitiateBuyFromResult(FALSE,
                 "No other players available to buy from.", source_user, <<>>))
        ELSE Outcome(db, InitiateBuyFromResult(TRUE, NoneStr, source_user, candidates))

initiate_buy_from_player(db, external_ctx, amount) ==
    LET error == _validate_positive_amount(amount)
        source_user == _get_logged_in_user(db, external_ctx)
        all_users == get_all_users(db)
        candidates == SelectSeq(all_users, LAMBDA u : u.id # source_user.id)
    IN  IF error # NoneStr
        THEN Outcome(db, InitiateBuyFromResult(FALSE, error, None, <<>>))
        ELSE IF source_user = None
        THEN Outcome(db, InitiateBuyFromResult(FALSE,
                 "You must /join <username> <password> before buying from another player.",
                 None, <<>>))
        ELSE IF candidates = <<>>
        THEN Outcome(db, InitiateBuyFromResult(FALSE,
                 "No other players available to buy from.", source_user, <<>>))
        ELSE Outcome(db, InitiateBuyFromResult(TRUE, NoneStr, source_user, candidates))

\* A faulty confirm_buy_from_player: the source is debited as soon as it is
\* found, before the target is looked at.
confirm_buy_from_player_DebitFirst(db, source_user_id, target_user_id, amount) ==
    LET error == _validate_positive_amount(amount)
        source == get_user(db, source_user_id)
        target == get_user(db, target_user_id)
        db1 == update_balance(db, source.id, -amount)
        db2 == update_balance(db1, target.id, amount)
        all == get_all_users(db2)
        text == source.first_name \o " buys " \o ToString(amount)
                    \o " from " \o target.first_name
    IN  IF error # NoneStr
        THEN Outcome(db, OperationResult(FALSE, error, <<>>))
        ELSE IF source = None
        THEN Outcome(db, OperationResult(FALSE, " Buyer or seller not found.", <<>>))
        ELSE IF target = None
        THEN Outcome(db1, OperationResult(FALSE, " Buyer or seller not found.", <<>>))
        ELSE Outcome(db2,
                 OperationResult(TRUE, NoneStr,
                     [i \in 1 .. Len(all) |-> BroadcastMessage(all[i].id, text)]))

\* A faulty confirm_buy_from_player: the target is credited and the source is
\* not debited.
confirm_buy_from_player_CreditOnly(db, source_user_id, target_user_id, amount) ==
    LET error == _validate_positive_amount(amount)
        source == get_user(db, source_user_id)
        target == get_user(db, target_user_id)
        db2 == update_balance(db, target.id, amount)
        all == get_all_users(db2)
        text == source.first_name \o " buys " \o ToString(amount)
                    \o " from " \o target.first_name
    IN  IF error # NoneStr
        THEN Outcome(db, OperationResult(FALSE, error, <<>>))
        ELSE IF source = None \/ target = None
        THEN Outcome(db, OperationResult(FALSE, " Buyer or seller not found.", <<>>))
        ELSE Outcome(db2,
                 OperationResult(TRUE, NoneStr,
                     [i \in 1 .. Len(all) |-> BroadcastMessage(all[i].id, text)]))

confirm_buy_from_player(db, source_user_id, target_user_id, amount) ==
    LET error == _validate_positive_amount(amount)
        source == get_user(db, source_user_id)
        target == get_user(db, target_user_id)
        db2 == update_balance(update_balance(db, source.id, -amount), target.id, amount)
        all == get_all_users(db2)
        text == source.first_name \o " buys " \o ToString(amount)
                    \o " from " \o target.first_name
    IN  IF error # NoneStr
        THEN Outcome(db, OperationResult(FALSE, error, <<>>))
        ELSE IF source = None \/ target = None
        THEN Outcome(db, OperationResult(FALSE, " Buyer or seller not found.", <<>>))
        ELSE Outcome(db2,
                 OperationResult(TRUE, NoneStr,
                     [i \in 1 .. Len(all) |-> BroadcastMessage(all[i].id, text)]))

\* A faulty reject_buy_from_player: the notification goes to the user who
\* declined.
reject_buy_from_player_NotifiesTarget(source_user_id, target_user_id, amount) ==
    OperationResult(TRUE, NoneStr, << BroadcastMessage(target_user_id, "haha sorry") >>)

reject_buy_from_player(source_user_id, target_user_id, amount) ==
    OperationResult(TRUE, NoneStr, << BroadcastMessage(source_user_id, "haha sorry") >>)

(* ------------------------------ actions ------------------------------- *)

\* The balances the actions stay within.
InRange(db) ==
    \A id \in DOMAIN db.users :
        db.users[id].balance \in (-MaxBalance) .. MaxBalance

\* One call of a service: the repositories take the contents the call leaves.
\* The returned value goes to the caller and is no part of the state.
Returns(out) ==
    /\ InRange(out.db)
    /\ accounts' = out.db.accounts
    /\ users' = out.db.users
    /\ identities' = out.db.identities
    /\ UNCHANGED <<tables, memberships, offered, threads, applied>>

\* The ids uuid4().hex has not returned before.
FreshIds == Ids \ ({a.id : a \in accounts} \cup DOMAIN users)

Init ==
    /\ accounts = {}
    /\ users = << >>
    /\ identities = << >>
    /\ tables = {}
    /\ memberships = {}
    /\ offered = {}
    /\ threads = [t \in Threads |-> Idle]
    /\ applied = [id \in Ids |-> 0]

Register(ctx, username, account_id) ==
    /\ get_by_username(DB, username) = None
    /\ Returns(register_or_login_user(DB, ctx, username, account_id))

Login(ctx, username) ==
    /\ get_by_username(DB, username) # None
    /\ Returns(register_or_login_user(DB, ctx, username, NoneStr))

Logout(ctx) ==
    Returns(logout_external_identity(DB, ctx))

BuyFromBank(ctx, amount) ==
    Returns(buy_chips_from_bank(DB, ctx, amount))

SellToBank(ctx, amount) ==
    Returns(sell_chips_to_bank(DB, ctx, amount))

BuyFromUser(ctx, amount, username) ==
    Returns(buy_chips_from_user(DB, ctx, amount, username))

SellToUser(ctx, amount, username) ==
    Returns(sell_chips_to_user(DB, ctx, amount, username))

Initiate(ctx, amount) ==
    Returns(initiate_buy_from_player(DB, ctx, amount))

Confirm(source_user_id, target_user_id, amount) ==
    Returns(confirm_buy_from_player(DB, source_user_id, target_user_id, amount))

Reject(source_user_id, target_user_id, amount) ==
    Returns(Outcome(DB, reject_buy_from_player(source_user_id, target_user_id, amount)))

Next ==
    \/ \E ctx \in Contexts, username \in Usernames, account_id \in FreshIds :
            Register(ctx, username, account_id)
    \/ \E ctx \in Contexts, username \in Usernames : Login(ctx, username)
    \/ \E ctx \in Contexts : Logout(ctx)
    \/ \E ctx \in Contexts, amount \in Amounts : BuyFromBank(ctx, amount)
    \/ \E ctx \in Contexts, amount \in Amounts : SellToBank(ctx, amount)
    \/ \E ctx \in Contexts, amount \in Amounts, username \in Usernames :
            BuyFromUser(ctx, amount, username)
    \/ \E ctx \in Contexts, amount \in Amounts, username \in Usernames :
            SellToUser(ctx, amount, username)
    \/ \E ctx \in Contexts, amount \in Amounts : Initiate(ctx, amount)
    \/ \E source_user_id \in Ids, target_user_id \in Ids, amount \in Amounts :
            Confirm(source_user_id, target_user_id, amount)
    \/ \E source_user_id \in Ids, target_user_id \in Ids, amount \in Amounts :
            Reject(source_user_id, target_user_id, amount)

Spec == Init /\ [][Next]_vars

(* ------------------------- the claims' vocabulary --------------------- *)

Key(ctx) == << ctx.provider, ctx.provider_user_id >>

Linked(db, ctx) == Key(ctx) \in DOMAIN db.identities

Positive == {a \in Amounts : a > 0}

NonPositive == {a \in Amounts : a <= 0}

\* The balances of db2 are those of db1 with delta[id] added for the ids delta
\* names, and no user has appeared or disappeared.
BalancesMoved(db1, db2, delta) ==
    /\ DOMAIN db2.users = DOMAIN db1.users
    /\ \A id \in DOMAIN db1.users :
          db2.users[id].balance =
              db1.users[id].balance + (IF id \in DOMAIN delta THEN delta[id] ELSE 0)

SameBalances(db1, db2) == BalancesMoved(db1, db2, << >>)

ValidationError == "Amount must be greater than zero."

MustJoinErrors ==
    { "You must /join <username> <password> before buying chips.",
      "You must /join <username> <password> before selling chips.",
      "You must /join <username> <password> before buying from another player.",
      "You must /join <username> <password> before selling to another player." }

\* A failed call: the flag, one of the given messages, nothing to notify, and
\* the repositories as they were.
FailsWith(db, out, messages) ==
    /\ out.result.success = FALSE
    /\ out.result.error_message \in messages
    /\ out.db = db

NoBroadcast(out) == out.result.broadcasts = << >>

(* ------------------------------ C1 ------------------------------------ *)

\* C1: a successful buy_chips_from_user takes exactly the amount from the
\* caller and gives it to the counterparty, a successful sell_chips_to_user
\* gives exactly the amount to the caller and takes it from the counterparty;
\* the two are distinct users, their balances' sum is as before and no other
\* balance changes.
C1_TwoPartyTransferMovesAmount ==
    \A ctx \in Contexts, a \in Amounts, v \in Usernames :
        LET caller == _get_logged_in_user(DB, ctx)
            other == get_by_username(DB, v)
            buy == buy_chips_from_user(DB, ctx, a, v)
            sell == sell_chips_to_user(DB, ctx, a, v)
            sum(db) == db.users[caller.id].balance + db.users[other.id].balance
        IN  /\ buy.result.success =>
                /\ caller.id # other.id
                /\ BalancesMoved(DB, buy.db, (caller.id :> -a) @@ (other.id :> a))
                /\ sum(buy.db) = sum(DB)
            /\ sell.result.success =>
                /\ caller.id # other.id
                /\ BalancesMoved(DB, sell.db, (caller.id :> a) @@ (other.id :> -a))
                /\ sum(sell.db) = sum(DB)
            /\ (a > 0 /\ caller # None /\ other # None /\ caller.id # other.id)
                    => buy.result.success /\ sell.result.success

\* Three users with unequal balances, one of them the caller, and a transfer
\* of two chips that succeeds.
C1_Witness ==
    \E ctx \in Contexts, v \in Usernames :
        /\ Cardinality(DOMAIN users) = 3
        /\ Linked(DB, ctx)
        /\ _get_logged_in_user(DB, ctx).balance = 1
        /\ buy_chips_from_user(DB, ctx, 2, v).result.success
        /\ buy_chips_from_user(DB, ctx, 2, v).db.users[get_by_username(DB, v).id].balance = 1

(* ------------------------------ C2 ------------------------------------ *)

\* C2: with an amount of zero or less, buy_chips_from_bank, sell_chips_to_bank,
\* buy_chips_from_user, sell_chips_to_user, initiate_buy_from_player and
\* confirm_buy_from_player fail with the validation error, give nothing to
\* notify, and leave accounts, balances and identity links as they were.
C2_NonPositiveAmountRejected ==
    \A a \in NonPositive :
        /\ \A ctx \in Contexts :
              /\ FailsWith(DB, buy_chips_from_bank(DB, ctx, a), {ValidationError})
              /\ NoBroadcast(buy_chips_from_bank(DB, ctx, a))
              /\ FailsWith(DB, sell_chips_to_bank(DB, ctx, a), {ValidationError})
              /\ NoBroadcast(sell_chips_to_bank(DB, ctx, a))
              /\ FailsWith(DB, initiate_buy_from_player(DB, ctx, a), {ValidationError})
              /\ initiate_buy_from_player(DB, ctx, a).result.candidates = << >>
              /\ \A v \in Usernames :
                    /\ FailsWith(DB, buy_chips_from_user(DB, ctx, a, v), {ValidationError})
                    /\ NoBroadcast(buy_chips_from_user(DB, ctx, a, v))
                    /\ FailsWith(DB, sell_chips_to_user(DB, ctx, a, v), {ValidationError})
                    /\ NoBroadcast(sell_chips_to_user(DB, ctx, a, v))
        /\ \A s \in Ids, t \in Ids :
              /\ FailsWith(DB, confirm_buy_from_player(DB, s, t, a), {ValidationError})
              /\ NoBroadcast(confirm_buy_from_player(DB, s, t, a))

\* A joined caller with another user present, for whom every one of the six
\* operations succeeds with amount 1 and is refused with amount 0.
C2_Witness ==
    \E ctx \in Contexts, v \in Usernames :
        /\ Linked(DB, ctx)
        /\ buy_chips_from_bank(DB, ctx, 1).result.success
        /\ buy_chips_from_user(DB, ctx, 1, v).result.success
        /\ initiate_buy_from_player(DB, ctx, 1).result.success
        /\ confirm_buy_from_player(DB, _get_logged_in_user(DB, ctx).id,
                                   get_by_username(DB, v).id, 1).result.success
        /\ ~ buy_chips_from_bank(DB, ctx, 0).result.success
        /\ ~ buy_chips_from_user(DB, ctx, 0, v).result.success

(* ------------------------------ C3 ------------------------------------ *)

\* C3: for a caller whose (provider, provider_user_id) has no identity link
\* and a positive amount, buy_chips_from_bank, sell_chips_to_bank,
\* buy_chips_from_user, sell_chips_to_user and initiate_buy_from_player fail
\* with a "must /join" error, give nothing to notify and change no balance.
C3_UnlinkedCallerMustJoin ==
    \A ctx \in Contexts, a \in Positive :
        ~ Linked(DB, ctx) =>
            /\ FailsWith(DB, buy_chips_from_bank(DB, ctx, a), MustJoinErrors)
            /\ NoBroadcast(buy_chips_from_bank(DB, ctx, a))
            /\ FailsWith(DB, sell_chips_to_bank(DB, ctx, a), MustJoinErrors)
            /\ NoBroadcast(sell_chips_to_bank(DB, ctx, a))
            /\ FailsWith(DB, initiate_buy_from_player(DB, ctx, a), MustJoinErrors)
            /\ initiate_buy_from_player(DB, ctx, a).result.candidates = << >>
            /\ \A v \in Usernames :
                  /\ FailsWith(DB, buy_chips_from_user(DB, ctx, a, v), MustJoinErrors)
                  /\ NoBroadcast(buy_chips_from_user(DB, ctx, a, v))
                  /\ FailsWith(DB, sell_chips_to_user(DB, ctx, a, v), MustJoinErrors)
                  /\ NoBroadcast(sell_chips_to_user(DB, ctx, a, v))

\* One identity has left while the other is still joined, two users exist and
\* one of them holds chips: the unlinked identity's purchase is refused.
C3_Witness ==
    \E ctx \in Contexts, other \in Contexts :
        /\ ~ Linked(DB, ctx)
        /\ Linked(DB, other)
        /\ Cardinality(DOMAIN users) >= 2
        /\ \E id \in DOMAIN users : users[id].balance # 0
        /\ buy_chips_from_bank(DB, ctx, 1).result.error_message \in MustJoinErrors

(* ------------------------------ C4 ------------------------------------ *)

C5_BuyThenSellRestores ==
    \A ctx \in Contexts, a \in Positive :
        Linked(DB, ctx) =>
            LET bought == buy_chips_from_bank(DB, ctx, a)
                sold == sell_chips_to_bank(bought.db, ctx, a)
            IN  /\ bought.result.success
                /\ sold.result.success
                /\ ~ SameBalances(DB, bought.db)
                /\ SameBalances(DB, sold.db)

\* A joined caller whose balance is not zero, and whose purchase of two chips
\* changes it.
C5_Witness ==
    \E ctx \in Contexts :
        /\ Linked(DB, ctx)
        /\ _get_logged_in_user(DB, ctx).balance = -1
        /\ buy_chips_from_bank(DB, ctx, 2).db.users[identities[Key(ctx)]].balance = -3

(* ------------------------------ C6 ------------------------------------ *)

\* C6: register_or_login_user with a username that has an Account adds no
\* Account and no User, leaves every User (its balance too) as it was, and
\* links the caller's identity to that Account's id.
C6_LoginReusesAccount ==
    \A ctx \in Contexts, username \in Usernames, account_id \in Ids :
        LET existing == get_by_username(DB, username)
            out == register_or_login_user(DB, ctx, username, account_id)
        IN  existing # None =>
                /\ out.result.success
                /\ out.db.accounts = accounts
                /\ out.db.users = users
                /\ Linked(out.db, ctx)
                /\ out.db.identities[Key(ctx)] = existing.id

\* An account that holds chips and an identity linked to another account: the
\* identity logs in to the first.
C6_Witness ==
    \E ctx \in Contexts, username \in Usernames :
        /\ get_by_username(DB, username) # None
        /\ users[get_by_username(DB, username).id].balance # 0
        /\ Linked(DB, ctx)
        /\ identities[Key(ctx)] # get_by_username(DB, username).id

(* ------------------------------ C7 ------------------------------------ *)

\* C7: every User has exactly one Account with its id; and
\* register_or_login_user with a username that has no Account adds exactly one
\* Account and one User, both with the new id, the User named after the
\* username with balance 0, and changes no other Account or User.
C7_UserHasOneAccount ==
    /\ \A id \in DOMAIN users :
          /\ users[id].id = id
          /\ Cardinality({a \in accounts : a.id = id}) = 1
    /\ \A ctx \in Contexts, username \in Usernames, account_id \in FreshIds :
          LET out == register_or_login_user(DB, ctx, username, account_id)
          IN  get_by_username(DB, username) = None =>
                  /\ out.result.success
                  /\ out.db.accounts =
                        accounts \cup {[id |-> account_id, username |-> username,
                                        password_hash |-> ""]}
                  /\ DOMAIN out.db.users = DOMAIN users \cup {account_id}
                  /\ out.db.users[account_id] =
                        [id |-> account_id, first_name |-> username,
                         last_name |-> "", balance |-> 0]
                  /\ \A id \in DOMAIN users : out.db.users[id] = users[id]

\* Two users are registered, one holding chips, and a third username is still
\* unknown.
C7_Witness ==
    /\ Cardinality(DOMAIN users) = 2
    /\ Cardinality(accounts) = 2
    /\ \E id \in DOMAIN users : users[id].balance # 0
    /\ \E username \in Usernames : get_by_username(DB, username) = None

(* ------------------------------ C8 ------------------------------------ *)

\* The account id register_or_login_user may be handed for a username: a fresh
\* one when the username is unknown, none that matters otherwise.
NewIdsFor(username) ==
    IF get_by_username(DB, username) = None THEN FreshIds ELSE {NoneStr}

\* C8: after register_or_login_user(ctx, username) the pair (provider,
\* provider_user_id) of ctx resolves to the account of that username,
\* whatever it was linked to before; every other pair's link, and every
\* existing User (so the balance of the account linked before), is unchanged.
C8_JoinRepointsOnlyCaller ==
    \A ctx \in Contexts, username \in Usernames :
        \A account_id \in NewIdsFor(username) :
            LET out == register_or_login_user(DB, ctx, username, account_id)
            IN  /\ DOMAIN out.db.identities = DOMAIN identities \cup {Key(ctx)}
                /\ out.db.identities[Key(ctx)] = get_by_username(out.db, username).id
                /\ _get_logged_in_user(out.db, ctx) # None
                /\ _get_logged_in_user(out.db, ctx).first_name = username
                /\ \A k \in DOMAIN identities \ {Key(ctx)} :
                      out.db.identities[k] = identities[k]
                /\ \A id \in DOMAIN users : out.db.users[id] = users[id]

\* Both identities are linked to an account that holds chips and another
\* username is registered: one identity joins under the other username.
C8_Witness ==
    \E ctx \in Contexts, other \in Contexts, username \in Usernames :
        /\ ctx # other
        /\ Linked(DB, ctx) /\ Linked(DB, other)
        /\ identities[Key(ctx)] = identities[Key(other)]
        /\ users[identities[Key(ctx)]].balance # 0
        /\ get_by_username(DB, username) # None
        /\ get_by_username(DB, username).id # identities[Key(ctx)]
        /\ register_or_login_user(DB, ctx, username, NoneStr).db.identities[Key(ctx)]
              # identities[Key(ctx)]

(* ------------------------------ C9 ------------------------------------ *)

\* What logout_external_identity leaves: the caller resolves to nobody, every
\* Account, every User and every other pair's link is as before, and with no
\* link to clear nothing changes at all.
LogoutSevers(ctx) ==
    LET out == logout_external_identity(DB, ctx)
    IN  /\ out.result.success
        /\ _get_logged_in_user(out.db, ctx) = None
        /\ out.db.accounts = accounts
        /\ out.db.users = users
        /\ DOMAIN out.db.identities = DOMAIN identities \ {Key(ctx)}
        /\ \A k \in DOMAIN identities \ {Key(ctx)} : out.db.identities[k] = identities[k]
        /\ ~ Linked(DB, ctx) => out.db = DB

\* A step by which a caller who resolved to nobody resolves to a User is a
\* register_or_login_user of that caller.
ResolvesOnlyByJoin(ctx) ==
    (_get_logged_in_user(DB, ctx) = None /\ _get_logged_in_user(DB', ctx) # None)
        => \E username \in Usernames, account_id \in Ids \cup {NoneStr} :
              DB' = register_or_login_user(DB, ctx, username, account_id).db

\* C9: after logout_external_identity(ctx) the caller is not logged in, and
\* stays so until the next register_or_login_user of that caller; a logout
\* with no link is a no-op; either way accounts, balances and the other
\* identities' links (those of the same account too) are unchanged.
C9_LogoutSeversOnlyCaller ==
    /\ [](\A ctx \in Contexts : LogoutSevers(ctx))
    /\ [][\A ctx \in Contexts : ResolvesOnlyByJoin(ctx)]_vars

\* Both identities are linked to one account that holds chips (a logout of one
\* has a link to clear and a sibling link to spare).
C9_Witness ==
    \E ctx \in Contexts, other \in Contexts :
        /\ ctx # other
        /\ Linked(DB, ctx) /\ Linked(DB, other)
        /\ identities[Key(ctx)] = identities[Key(other)]
        /\ users[identities[Key(ctx)]].balance # 0
        /\ Linked(logout_external_identity(DB, ctx).db, other)
        /\ ~ Linked(logout_external_identity(DB, ctx).db, ctx)

(* ------------------------------ C10 ----------------------------------- *)

\* C10: a (provider, provider_user_id) pair resolves to at most one account,
\* the one it is linked to; two pairs joined under one username resolve to the
\* same User, and a bank purchase or sale from either acts on that User's one
\* balance.
C10_IdentitiesShareAccount ==
    /\ \A ctx \in Contexts :
          Linked(DB, ctx) =>
              /\ Cardinality({a \in accounts : a.id = identities[Key(ctx)]}) = 1
              /\ _get_logged_in_user(DB, ctx) = users[identities[Key(ctx)]]
    /\ \A c1 \in Contexts, c2 \in Contexts, username \in Usernames :
          \A account_id \in NewIdsFor(username) :
              LET first == register_or_login_user(DB, c1, username, account_id).db
                  both == register_or_login_user(first, c2, username, NoneStr).db
                  user == _get_logged_in_user(both, c1)
              IN  /\ user # None
                  /\ _get_logged_in_user(both, c2) = user
                  /\ user.first_name = username
                  /\ \A a \in Positive :
                        /\ buy_chips_from_bank(both, c1, a).db
                              = buy_chips_from_bank(both, c2, a).db
                        /\ BalancesMoved(both, buy_chips_from_bank(both, c2, a).db,
                                         user.id :> -a)
                        /\ sell_chips_to_bank(both, c1, a).db
                              = sell_chips_to_bank(both, c2, a).db
                        /\ BalancesMoved(both, sell_chips_to_bank(both, c1, a).db,
                                         user.id :> a)

\* The Telegram and the Discord identity are linked to the same account, whose
\* balance is not zero, while another account exists.
C10_Witness ==
    \E c1 \in Contexts, c2 \in Contexts :
        /\ c1 # c2
        /\ c1.provider # c2.provider
        /\ Linked(DB, c1) /\ Linked(DB, c2)
        /\ identities[Key(c1)] = identities[Key(c2)]
        /\ _get_logged_in_user(DB, c1) = _get_logged_in_user(DB, c2)
        /\ _get_logged_in_user(DB, c1).balance = 1
        /\ Cardinality(DOMAIN users) >= 2

(* ------------------------------ C11 ----------------------------------- *)

SelfTransactionErrors ==
    { "You cannot buy chips from yourself.", "You cannot sell chips to yourself." }

\* The usernames of the account the caller's identity is linked to.
OwnUsernames(db, ctx) ==
    {username \in Usernames :
        /\ get_by_username(db, username) # None
        /\ get_by_username(db, username).id = db.identities[Key(ctx)]}

\* C11: buy_chips_from_user and sell_chips_to_user called by a logged-in user
\* with a positive amount and a counterparty username that resolves to the
\* caller's own account fail with the self-transaction error, return no
\* notification and leave every balance (and the rest of the repositories) as
\* it was.
C11_SelfTransactionRejected ==
    \A ctx \in Contexts, amount \in Positive :
        Linked(DB, ctx) =>
            \A username \in OwnUsernames(DB, ctx) :
                LET buy == buy_chips_from_user(DB, ctx, amount, username)
                    sell == sell_chips_to_user(DB, ctx, amount, username)
                IN  /\ FailsWith(DB, buy, {"You cannot buy chips from yourself."})
                    /\ NoBroadcast(buy)
                    /\ SameBalances(DB, buy.db)
                    /\ FailsWith(DB, sell, {"You cannot sell chips to yourself."})
                    /\ NoBroadcast(sell)
                    /\ SameBalances(DB, sell.db)

\* A logged-in caller who holds chips names their own username, while another
\* user exists the chips could have gone to.
C11_Witness ==
    \E ctx \in Contexts :
        /\ Linked(DB, ctx)
        /\ OwnUsernames(DB, ctx) # {}
        /\ users[identities[Key(ctx)]].balance # 0
        /\ Cardinality(DOMAIN users) >= 2
        /\ \A username \in OwnUsernames(DB, ctx) :
              ~ sell_chips_to_user(DB, ctx, 1, username).result.success

(* ------------------------------ C12 ----------------------------------- *)

CounterpartyNotFoundErrors ==
    { "Seller username not found.", "Buyer username not found." }

\* C12: buy_chips_from_user and sell_chips_to_user called by a logged-in user
\* with a positive amount and a counterparty username that no Account has fail
\* with the "username not found" message, which is none of the validation,
\* must-join and self-transaction messages; they return no notification and
\* change no balance.
C12_UnknownCounterpartyRejected ==
    /\ CounterpartyNotFoundErrors
           \cap ({ValidationError} \cup MustJoinErrors \cup SelfTransactionErrors) = {}
    /\ \A ctx \in Contexts, amount \in Positive, username \in Usernames :
          (Linked(DB, ctx) /\ get_by_username(DB, username) = None) =>
              LET buy == buy_chips_from_user(DB, ctx, amount, username)
                  sell == sell_chips_to_user(DB, ctx, amount, username)
              IN  /\ FailsWith(DB, buy, {"Seller username not found."})
                  /\ NoBroadcast(buy)
                  /\ SameBalances(DB, buy.db)
                  /\ FailsWith(DB, sell, {"Buyer username not found."})
                  /\ NoBroadcast(sell)
                  /\ SameBalances(DB, sell.db)

\* A logged-in caller, a second user, and a username nobody has registered:
\* the call with that username fails as not found.
C12_Witness ==
    \E ctx \in Contexts, username \in Usernames :
        /\ Linked(DB, ctx)
        /\ Cardinality(DOMAIN users) >= 2
        /\ get_by_username(DB, username) = None
        /\ buy_chips_from_user(DB, ctx, 1, username).result.error_message
               \in CounterpartyNotFoundErrors

(* ------------------------------ C13 ----------------------------------- *)

\* The result carries exactly two notifications, one for each of the two
\* users, both with the given text.
NotifiesBoth(result, user_id, other_id, text) ==
    /\ Len(result.broadcasts) = 2
    /\ {result.broadcasts[i].user_id : i \in 1 .. 2} = {user_id, other_id}
    /\ result.broadcasts[1].user_id # result.broadcasts[2].user_id
    /\ \A i \in 1 .. 2 : result.broadcasts[i].text = text

\* C13: a successful buy_chips_from_user or sell_chips_to_user returns exactly
\* two notifications with one and the same text, one for the caller and one
\* for the counterparty: "<buyer> buys <amount> from <seller>" for a purchase
\* and "<seller> sells <amount> to <buyer>" for a sale, with the first names of
\* the two users and the amount in decimal.
C13_TwoNotificationsOneText ==
    \A ctx \in Contexts, amount \in Amounts, username \in Usernames :
        LET buy == buy_chips_from_user(DB, ctx, amount, username)
            sell == sell_chips_to_user(DB, ctx, amount, username)
            caller == users[identities[Key(ctx)]]
            counterparty == users[get_by_username(DB, username).id]
        IN  /\ buy.result.success =>
                  NotifiesBoth(buy.result, caller.id, counterparty.id,
                      caller.first_name \o " buys " \o ToString(amount)
                          \o " from " \o counterparty.first_name)
            /\ sell.result.success =>
                  NotifiesBoth(sell.result, caller.id, counterparty.id,
                      caller.first_name \o " sells " \o ToString(amount)
                          \o " to " \o counterparty.first_name)

\* bob, logged in, can sell 1 chip to alice: the text is "bob sells 1 to alice".
C13_Witness ==
    \E ctx \in Contexts :
        LET sell == sell_chips_to_user(DB, ctx, 1, "alice")
        IN  /\ sell.result.success
            /\ sell.result.broadcasts[1].text = "bob sells 1 to alice"
            /\ buy_chips_from_user(DB, ctx, 1, "alice").result.broadcasts[2].text
                   = "bob buys 1 from alice"

(* ------------------------------ C14 ----------------------------------- *)

\* The users a user id is linked from.
LoggedInIds(db) == {db.identities[k] : k \in DOMAIN db.identities}

\* C14: initiate_buy_from_player called by a logged-in user with a positive
\* amount returns the caller's User as source_user and, as candidates, every
\* known User other than the source exactly once, logged in or not; it fails,
\* with "No other players available to buy from.", exactly when no other User
\* exists; either way the repositories stay as they were and the result has
\* no notification in it.
C14_InitiateListsOtherUsers ==
    \A ctx \in Contexts, amount \in Positive :
        Linked(DB, ctx) =>
            LET out == initiate_buy_from_player(DB, ctx, amount)
                source == users[identities[Key(ctx)]]
                others == {users[id] : id \in DOMAIN users \ {source.id}}
                listed == {out.result.candidates[i] :
                              i \in 1 .. Len(out.result.candidates)}
            IN  /\ out.db = DB
                /\ "broadcasts" \notin DOMAIN out.result
                /\ out.result.source_user = source
                /\ listed = others
                /\ Len(out.result.candidates) = Cardinality(others)
                /\ out.result.success <=> others # {}
                /\ ~ out.result.success =>
                       out.result.error_message
                           = "No other players available to buy from."

\* A logged-in caller with two other users, one of them not logged in from any
\* identity: both are candidates.
C14_Witness ==
    \E ctx \in Contexts :
        /\ Linked(DB, ctx)
        /\ Cardinality(DOMAIN users) = 3
        /\ \E id \in DOMAIN users : id \notin LoggedInIds(DB)
        /\ Len(initiate_buy_from_player(DB, ctx, 1).result.candidates) = 2

\* A logged-in caller who is the only user: there is nobody to buy from.
C14_WitnessAlone ==
    \E ctx \in Contexts :
        /\ Linked(DB, ctx)
        /\ Cardinality(DOMAIN users) = 1
        /\ ~ initiate_buy_from_player(DB, ctx, 1).result.success

(* ------------------------------ C15 ----------------------------------- *)

\* The ids of the users whose balance differs between db1 and db2.
ChangedBalances(db1, db2) ==
    {id \in DOMAIN db1.users : db2.users[id].balance # db1.users[id].balance}

\* The result carries one notification for each known user, and each has the
\* given text.
NotifiesEveryUser(db, result, text) ==
    /\ Len(result.broadcasts) = Cardinality(DOMAIN db.users)
    /\ {result.broadcasts[i].user_id : i \in 1 .. Len(result.broadcasts)}
           = DOMAIN db.users
    /\ \A i \in 1 .. Len(result.broadcasts) : result.broadcasts[i].text = text

\* What a successful confirm_buy_from_player(source, target, amount) is to
\* leave behind.
ConfirmMoves(db, out, source_user_id, target_user_id, amount) ==
    /\ DOMAIN out.db.users = DOMAIN db.users
    /\ out.db.users[source_user_id].balance
           = db.users[source_user_id].balance - amount
    /\ out.db.users[target_user_id].balance
           = db.users[target_user_id].balance + amount
    /\ Cardinality(ChangedBalances(db, out.db)) = 2
    /\ NotifiesEveryUser(db, out.result,
           db.users[source_user_id].first_name \o " buys " \o ToString(amount)
               \o " from " \o db.users[target_user_id].first_name)

\* C15: for every existing source user, existing target user and positive
\* amount, a successful confirm_buy_from_player leaves the source's balance
\* exactly amount lower and the target's exactly amount higher than before,
\* exactly two balances having changed, and returns exactly one notification
\* per known user, each with the text "<source> buys <amount> from <target>".
C15_ConfirmMovesAmount ==
    \A source_user_id \in DOMAIN users, target_user_id \in DOMAIN users,
       amount \in Positive :
        LET out == confirm_buy_from_player(DB, source_user_id, target_user_id, amount)
        IN  out.result.success =>
                ConfirmMoves(DB, out, source_user_id, target_user_id, amount)

\* The same for two different users only: this much the code does.
C15_ConfirmMovesAmountBetweenTwo ==
    \A source_user_id \in DOMAIN users, target_user_id \in DOMAIN users,
       amount \in Positive :
        LET out == confirm_buy_from_player(DB, source_user_id, target_user_id, amount)
        IN  source_user_id # target_user_id =>
                /\ out.result.success
                /\ ConfirmMoves(DB, out, source_user_id, target_user_id, amount)

\* confirm_buy_from_player with one user as source and as target succeeds,
\* moves nothing and still notifies every user.
C15_SelfConfirmSucceeds ==
    \E id \in DOMAIN users :
        LET out == confirm_buy_from_player(DB, id, id, 1)
        IN  /\ Cardinality(DOMAIN users) >= 2
            /\ out.result.success
            /\ ChangedBalances(DB, out.db) = {}
            /\ Len(out.result.broadcasts) >= 2

(* ------------------------------ C16 ----------------------------------- *)

\* C16: confirm_buy_from_player with a positive amount and a source id or a
\* target id (or both) that names no existing user fails with the "not found"
\* message, returns no notification and changes no balance; the party that
\* does exist is neither debited nor credited.
C16_ConfirmUnknownPartyRejected ==
    \A source_user_id \in Ids, target_user_id \in Ids, amount \in Positive :
        (source_user_id \notin DOMAIN users \/ target_user_id \notin DOMAIN users) =>
            LET out == confirm_buy_from_player(DB, source_user_id, target_user_id, amount)
            IN  /\ FailsWith(DB, out, {" Buyer or seller not found."})
                /\ NoBroadcast(out)
                /\ SameBalances(DB, out.db)

\* An existing source and an id no user has: the call fails as not found.
C16_Witness ==
    \E source_user_id \in DOMAIN users, target_user_id \in Ids \ DOMAIN users :
        /\ Cardinality(DOMAIN users) >= 2
        /\ confirm_buy_from_player(DB, source_user_id, target_user_id, 1)
               .result.error_message = " Buyer or seller not found."
        /\ confirm_buy_from_player(DB, target_user_id, source_user_id, 1)
               .result.error_message = " Buyer or seller not found."

(* ------------------------------ C17 ----------------------------------- *)

\* C17: reject_buy_from_player(source_user_id, target_user_id, amount) returns
\* success with exactly one notification, addressed to source_user_id, with
\* the text "haha sorry", whatever target_user_id and amount are (an unknown
\* target and a non-positive amount included). The function is handed no
\* repository, so the balances and links it leaves are the ones it found: the
\* Reject step returns the repositories it was given.
C17_RejectNotifiesSourceOnly ==
    \A source_user_id \in Ids, target_user_id \in Ids, amount \in Amounts :
        LET out == Outcome(DB, reject_buy_from_player(source_user_id,
                                                      target_user_id, amount))
        IN  /\ out.result.success
            /\ out.result.error_message = NoneStr
            /\ Len(out.result.broadcasts) = 1
            /\ out.result.broadcasts[1].user_id = source_user_id
            /\ out.result.broadcasts[1].text = "haha sorry"
            /\ SameBalances(DB, out.db)
            /\ out.db.identities = identities

\* Two users holding opposite balances, as after a transfer between them: a
\* rejection between them is a case of the claim.
C17_Witness ==
    \E source_user_id \in DOMAIN users, target_user_id \in DOMAIN users :
        /\ source_user_id # target_user_id
        /\ users[source_user_id].balance = -1
        /\ users[target_user_id].balance = 1
        /\ reject_buy_from_player(source_user_id, target_user_id, 1).broadcasts
               = << [user_id |-> source_user_id, text |-> "haha sorry"] >>

(* ------------------------------ C18 ----------------------------------- *)

\* The proposals initiate_buy_from_player offers in db: the source, one of the
\* candidates, and the amount.
Proposals(db) ==
    UNION { LET init == initiate_buy_from_player(db, ctx, amount).result
            IN  IF init.success
                THEN { << init.source_user.id, init.candidates[i].id, amount >> :
                           i \in 1 .. Len(init.candidates) }
                ELSE {}
            : << ctx, amount >> \in Contexts \X Amounts }

\* C18: a proposal is consumed once, by confirm or by reject: after
\* confirm_buy_from_player has been called for a proposal, a second
\* confirm_buy_from_player for it changes no balance, and after
\* reject_buy_from_player has been called for it, a confirm_buy_from_player
\* for it changes no balance.
C18_SettledProposalMovesNothing ==
    \A proposal \in Proposals(DB) :
        LET source_user_id == proposal[1]
            target_user_id == proposal[2]
            amount == proposal[3]
            confirmed == confirm_buy_from_player(DB, source_user_id,
                                                 target_user_id, amount)
            rejected == Outcome(DB, reject_buy_from_player(source_user_id,
                                                           target_user_id, amount))
        IN  /\ confirmed.result.success =>
                  SameBalances(confirmed.db,
                      confirm_buy_from_player(confirmed.db, source_user_id,
                                              target_user_id, amount).db)
            /\ rejected.result.success =>
                  SameBalances(rejected.db,
                      confirm_buy_from_player(rejected.db, source_user_id,
                                              target_user_id, amount).db)

\* A proposal is confirmed twice and moves its amount twice; rejected and then
\* confirmed, it moves its amount once.
C18_ProposalMovesTwice ==
    \E proposal \in Proposals(DB) :
        LET once == confirm_buy_from_player(DB, proposal[1], proposal[2], 1)
            twice == confirm_buy_from_player(once.db, proposal[1], proposal[2], 1)
        IN  /\ proposal[3] = 1
            /\ twice.result.success
            /\ twice.db.users[proposal[1]].balance = users[proposal[1]].balance - 2
            /\ twice.db.users[proposal[2]].balance = users[proposal[2]].balance + 2

(* ------------------- a store whose update may fail -------------------- *)

\* What a service leaves its caller when a repository call raises: the
\* exception, and no OperationResult.
StoreError == [raised |-> "store failure"]

\* Which of the two update_balance calls of a transfer raises. A call that
\* raises has changed no row.
FailurePoints == {"none", "first", "second"}

\* The two update_balance calls of a transfer, in the order of the code: the
\* buyer's row with -amount, then the seller's with amount; then the return.
\* An exception leaves the function at the call that raised it, with the
\* earlier call applied.
ApplyTransfer(db, buyer_id, seller_id, amount, result, raises) ==
    IF raises = "first"
    THEN Outcome(db, StoreError)
    ELSE IF raises = "second"
    THEN Outcome(update_balance(db, buyer_id, -amount), StoreError)
    ELSE Outcome(update_balance(update_balance(db, buyer_id, -amount), seller_id, amount),
                 result)

\* A faulty buy_chips_from_user: the seller is credited before the buyer is
\* debited.
buy_chips_from_user_CreditFirst(db, external_ctx, amount, counterparty_username, raises) ==
    LET plain == buy_chips_from_user(db, external_ctx, amount, counterparty_username)
        buyer == _get_logged_in_user(db, external_ctx)
        seller == get_user(db, get_by_username(db, counterparty_username).id)
    IN  IF ~ plain.result.success
        THEN plain
        ELSE IF raises = "first"
        THEN Outcome(db, StoreError)
        ELSE IF raises = "second"
        THEN Outcome(update_balance(db, seller.id, amount), StoreError)
        ELSE plain

\* buy_chips_from_user on a store whose update_balance may raise.
buy_chips_from_user_raising(db, external_ctx, amount, counterparty_username, raises) ==
    LET plain == buy_chips_from_user(db, external_ctx, amount, counterparty_username)
        buyer == _get_logged_in_user(db, external_ctx)
        seller == get_user(db, get_by_username(db, counterparty_username).id)
    IN  IF ~ plain.result.success
        THEN plain
        ELSE ApplyTransfer(db, buyer.id, seller.id, amount, plain.result, raises)

\* sell_chips_to_user on a store whose update_balance may raise.
sell_chips_to_user_raising(db, external_ctx, amount, counterparty_username, raises) ==
    LET plain == sell_chips_to_user(db, external_ctx, amount, counterparty_username)
        seller == _get_logged_in_user(db, external_ctx)
        buyer == get_user(db, get_by_username(db, counterparty_username).id)
    IN  IF ~ plain.result.success
        THEN plain
        ELSE ApplyTransfer(db, buyer.id, seller.id, amount, plain.result, raises)

\* confirm_buy_from_player on a store whose update_balance may raise.
confirm_buy_from_player_raising(db, source_user_id, target_user_id, amount, raises) ==
    LET plain == confirm_buy_from_player(db, source_user_id, target_user_id, amount)
    IN  IF ~ plain.result.success
        THEN plain
        ELSE ApplyTransfer(db, source_user_id, target_user_id, amount,
                           plain.result, raises)

BuyFromUserRaising(ctx, amount, username, raises) ==
    Returns(buy_chips_from_user_raising(DB, ctx, amount, username, raises))

SellToUserRaising(ctx, amount, username, raises) ==
    Returns(sell_chips_to_user_raising(DB, ctx, amount, username, raises))

ConfirmRaising(source_user_id, target_user_id, amount, raises) ==
    Returns(confirm_buy_from_player_raising(DB, source_user_id, target_user_id,
                                            amount, raises))

NextStoreFailure ==
    \/ \E ctx \in Contexts, username \in Usernames, account_id \in FreshIds :
            Register(ctx, username, account_id)
    \/ \E ctx \in Contexts, username \in Usernames : Login(ctx, username)
    \/ \E ctx \in Contexts, amount \in Amounts, username \in Usernames,
          raises \in FailurePoints :
            BuyFromUserRaising(ctx, amount, username, raises)
    \/ \E ctx \in Contexts, amount \in Amounts, username \in Usernames,
          raises \in FailurePoints :
            SellToUserRaising(ctx, amount, username, raises)
    \/ \E source_user_id \in Ids, target_user_id \in Ids, amount \in Amounts,
          raises \in FailurePoints :
            ConfirmRaising(source_user_id, target_user_id, amount, raises)

SpecStoreFailure == Init /\ [][NextStoreFailure]_vars

(* ------------------------------ C20 ----------------------------------- *)

\* The notifications a call hands its caller: those of the OperationResult, or
\* none when the call raised.
Notifications(result) ==
    IF "broadcasts" \in DOMAIN result THEN result.broadcasts ELSE << >>

\* What a transfer whose update_balance raised leaves: no result and so no
\* notification; nothing changed when the first call raised; the buyer
\* debited and the seller not credited when the second did.
FailedTransfer(db, out, buyer_id, amount, raises) ==
    /\ out.result = StoreError
    /\ Notifications(out.result) = << >>
    /\ out.db.accounts = db.accounts
    /\ out.db.identities = db.identities
    /\ raises = "first" => SameBalances(db, out.db)
    /\ raises = "second" => BalancesMoved(db, out.db, buyer_id :> -amount)

\* C20: in buy_chips_from_user, sell_chips_to_user and
\* confirm_buy_from_player the two balance updates are one unit for the
\* notification: when either update fails no notification is returned. The
\* debit comes first and is not undone: when the credit fails, the buyer is
\* left amount lower and the seller as before; when the debit fails, nothing
\* has changed. When neither fails the call is the plain one.
C20_FailedUpdateNotifiesNobody ==
    /\ \A ctx \in Contexts, amount \in Amounts, username \in Usernames,
          raises \in FailurePoints :
          LET buy == buy_chips_from_user(DB, ctx, amount, username)
              sell == sell_chips_to_user(DB, ctx, amount, username)
              caller == identities[Key(ctx)]
              counterparty == get_by_username(DB, username).id
          IN  /\ (buy.result.success /\ raises # "none") =>
                     FailedTransfer(DB,
                         buy_chips_from_user_raising(DB, ctx, amount, username, raises),
                         caller, amount, raises)
              /\ (sell.result.success /\ raises # "none") =>
                     FailedTransfer(DB,
                         sell_chips_to_user_raising(DB, ctx, amount, username, raises),
                         counterparty, amount, raises)
              /\ buy_chips_from_user_raising(DB, ctx, amount, username, "none") = buy
              /\ sell_chips_to_user_raising(DB, ctx, amount, username, "none") = sell
    /\ \A source_user_id \in Ids, target_user_id \in Ids, amount \in Amounts,
          raises \in FailurePoints :
          LET confirm == confirm_buy_from_player(DB, source_user_id,
                                                 target_user_id, amount)
          IN  /\ (confirm.result.success /\ raises # "none") =>
                     FailedTransfer(DB,
                         confirm_buy_from_player_raising(DB, source_user_id,
                             target_user_id, amount, raises),
                         source_user_id, amount, raises)
              /\ confirm_buy_from_player_raising(DB, source_user_id,
                     target_user_id, amount, "none") = confirm

\* Two users, one a chip short and the other with none: the second update of
\* a transfer between them has failed, and the chips are in nobody's balance.
C20_Witness ==
    \E buyer_id \in DOMAIN users, seller_id \in DOMAIN users :
        /\ buyer_id # seller_id
        /\ users[buyer_id].balance = -1
        /\ \A id \in DOMAIN users \ {buyer_id} : users[id].balance = 0

(* ------------------------- the channel adapters ----------------------- *)

\* The table names a command may carry.
TableNames == {"main"}

TelegramContexts == {ctx \in Contexts : ctx.provider = "telegram"}

DiscordContexts == {ctx \in Contexts : ctx.provider = "discord"}

\* Everything the handlers read and write: the three repositories and the
\* table repository.
World(db, t, m) == [db |-> db, tables |-> t, memberships |-> m]

WORLD == World(DB, tables, memberships)

\* One message the bot sends. A command arrives in the chat of its sender and
\* bot.send_message(message.chat.id, ...) / ctx.send(...) answers into it; the
\* chat is named by the sender's (provider, provider_user_id).
Sent(chat, text) == [chat |-> chat, text |-> text]

\* A handler's effect: the world it leaves and the messages it has sent.
Handled(world, sent) == [world |-> world, sent |-> sent]

\* SqliteTableRepository.create_table: the row is inserted unless the name is
\* taken; the flag tells which.
create_table(world, name) ==
    [created |-> name \notin world.tables,
     world |-> [world EXCEPT !.tables = @ \cup {name}]]

exists(world, name) == name \in world.tables

\* INSERT OR IGNORE of the (table_name, user_id) row; the table is not looked
\* up.
add_user_to_table(world, table_name, user_id) ==
    [world EXCEPT !.memberships = @ \cup {<< table_name, user_id >>}]

\* The words of a /buy or /sell message. An amount is written in decimal; "x"
\* is a word that is no number.
AmountWords == {ToString(a) : a \in Amounts} \cup {"x"}

TransactionTexts ==
    {<< op >> : op \in {"/buy", "/sell"}}
        \cup {<< op, word >> : op \in {"/buy", "/sell"}, word \in AmountWords}
        \cup {<< op, word, username >> :
                 op \in {"/buy", "/sell"}, word \in AmountWords,
                 username \in Usernames}

ValueError == [raised |-> "ValueError"]

\* int(word): the number the word is the decimal of, or ValueError.
int(word) ==
    IF \E a \in Amounts : ToString(a) = word
    THEN [value |-> CHOOSE a \in Amounts : ToString(a) = word]
    ELSE ValueError

\* parts[0][1:], for the two commands the handler is registered for.
StripSlash(word) ==
    CASE word = "/buy" -> "buy"
      [] word = "/sell" -> "sell"

\* The one message a buy or sell handler answers with: the error, or the text
\* of the first notification of the result.
TransactionReply(chat, result, completed) ==
    IF ~ result.success
    THEN << Sent(chat, result.error_message) >>
    ELSE IF result.broadcasts # << >>
    THEN << Sent(chat, result.broadcasts[1].text) >>
    ELSE << Sent(chat, completed) >>

handle_new_table(world, ctx, table_name) ==
    LET made == create_table(world, table_name)
    IN  IF ~ made.created
        THEN Handled(made.world,
                 << Sent(Key(ctx), "Table '" \o table_name \o "' already exists.") >>)
        ELSE Handled(made.world,
                 << Sent(Key(ctx), "Table '" \o table_name \o "' has been created.") >>)

handle_join(world, ctx, table_name, username, account_id) ==
    LET out == register_or_login_user(world.db, ctx, username, account_id)
        user == find_user_by_external(out.db, ctx.provider, ctx.provider_user_id)
        joined == [world EXCEPT !.db = out.db]
    IN  IF ~ exists(world, table_name)
        THEN Handled(world,
                 << Sent(Key(ctx), "Table '" \o table_name \o "' does not exist. Use /new "
                                       \o table_name \o " first.") >>)
        ELSE IF ~ out.result.success
        THEN Handled(joined, << Sent(Key(ctx), out.result.error_message) >>)
        ELSE Handled(IF user # None
                     THEN add_user_to_table(joined, table_name, user.id)
                     ELSE joined,
                 << Sent(Key(ctx), "You have joined table '" \o table_name \o "' as '"
                                       \o username \o "'. You can now buy/sell chips.") >>)

handle_leave(world, ctx) ==
    Handled([world EXCEPT !.db = logout_external_identity(world.db, ctx).db],
            << Sent(Key(ctx), "You have been logged out on this device.") >>)

handle_transaction(world, ctx, parts) ==
    LET op == StripSlash(parts[1])
        amount == int(parts[2])
        username == IF Len(parts) > 2 THEN parts[3] ELSE NoneStr
        out == IF op = "buy"
               THEN IF username # NoneStr /\ username # ""
                    THEN buy_chips_from_user(world.db, ctx, amount.value, username)
                    ELSE buy_chips_from_bank(world.db, ctx, amount.value)
               ELSE IF username # NoneStr /\ username # ""
                    THEN sell_chips_to_user(world.db, ctx, amount.value, username)
                    ELSE sell_chips_to_bank(world.db, ctx, amount.value)
    IN  IF Len(parts) < 2
        THEN Handled(world, << Sent(Key(ctx), "Please enter amount of chips.") >>)
        ELSE IF amount = ValueError
        THEN Handled(world, << Sent(Key(ctx), "Amount must be a number.") >>)
        ELSE IF op \notin {"buy", "sell"}
        THEN Handled(world, << Sent(Key(ctx), "Unknown operation.") >>)
        ELSE Handled([world EXCEPT !.db = out.db],
                     TransactionReply(Key(ctx), out.result, "Operation completed."))

new_table_cmd(world, ctx, table_name) ==
    LET made == create_table(world, table_name)
    IN  IF ~ made.created
        THEN Handled(made.world,
                 << Sent(Key(ctx), "Table '" \o table_name \o "' already exists.") >>)
        ELSE Handled(made.world,
                 << Sent(Key(ctx), "Table '" \o table_name \o "' has been created.") >>)

join_cmd(world, ctx, table_name, username, account_id) ==
    LET out == register_or_login_user(world.db, ctx, username, account_id)
        user == find_user_by_external(out.db, "discord", ctx.provider_user_id)
        joined == [world EXCEPT !.db = out.db]
    IN  IF ~ out.result.success
        THEN Handled(joined,
                 << Sent(Key(ctx), IF out.result.error_message # NoneStr
                                   THEN out.result.error_message
                                   ELSE "Join failed.") >>)
        ELSE Handled(IF user # None
                     THEN add_user_to_table(joined, table_name, user.id)
                     ELSE joined,
                 << Sent(Key(ctx), "You have joined table '" \o table_name \o "' as '"
                                       \o username \o "'. You can now buy/sell chips.") >>)

leave_cmd(world, ctx) ==
    Handled([world EXCEPT !.db = logout_external_identity(world.db, ctx).db],
            << Sent(Key(ctx), "You have been logged out on this account.") >>)

buy_cmd(world, ctx, amount, username) ==
    LET out == IF username = NoneStr
               THEN buy_chips_from_bank(world.db, ctx, amount)
               ELSE buy_chips_from_user(world.db, ctx, amount, username)
    IN  IF ~ out.result.success
        THEN Handled([world EXCEPT !.db = out.db],
                 << Sent(Key(ctx), IF out.result.error_message # NoneStr
                                   THEN out.result.error_message
                                   ELSE "Buy failed.") >>)
        ELSE Handled([world EXCEPT !.db = out.db],
                     TransactionReply(Key(ctx), out.result, "Buy completed."))

sell_cmd(world, ctx, amount, username) ==
    LET out == IF username = NoneStr
               THEN sell_chips_to_bank(world.db, ctx, amount)
               ELSE sell_chips_to_user(world.db, ctx, amount, username)
    IN  IF ~ out.result.success
        THEN Handled([world EXCEPT !.db = out.db],
                 << Sent(Key(ctx), IF out.result.error_message # NoneStr
                                   THEN out.result.error_message
                                   ELSE "Sell failed.") >>)
        ELSE Handled([world EXCEPT !.db = out.db],
                     TransactionReply(Key(ctx), out.result, "Sell completed."))

\* One handler has run: the repositories take the contents it leaves. The
\* messages have gone to their chats and are no part of the state.
Handles(handled) ==
    /\ InRange(handled.world.db)
    /\ accounts' = handled.world.db.accounts
    /\ users' = handled.world.db.users
    /\ identities' = handled.world.db.identities
    /\ tables' = handled.world.tables
    /\ memberships' = handled.world.memberships
    /\ UNCHANGED <<offered, threads, applied>>

TelegramNew(ctx, table_name) == Handles(handle_new_table(WORLD, ctx, table_name))

TelegramJoin(ctx, table_name, username, account_id) ==
    Handles(handle_join(WORLD, ctx, table_name, username, account_id))

TelegramLeave(ctx) == Handles(handle_leave(WORLD, ctx))

TelegramTransaction(ctx, parts) == Handles(handle_transaction(WORLD, ctx, parts))

DiscordNew(ctx, table_name) == Handles(new_table_cmd(WORLD, ctx, table_name))

DiscordJoin(ctx, table_name, username, account_id) ==
    Handles(join_cmd(WORLD, ctx, table_name, username, account_id))

DiscordLeave(ctx) == Handles(leave_cmd(WORLD, ctx))

DiscordBuy(ctx, amount, username) == Handles(buy_cmd(WORLD, ctx, amount, username))

DiscordSell(ctx, amount, username) == Handles(sell_cmd(WORLD, ctx, amount, username))

\* The commands that write: /start, /help and /list (and their Discord
\* counterparts) only read and answer.
NextAdapters ==
    \/ \E ctx \in TelegramContexts, table_name \in TableNames :
            TelegramNew(ctx, table_name)
    \/ \E ctx \in TelegramContexts, table_name \in TableNames,
          username \in Usernames :
            \E account_id \in NewIdsFor(username) :
                TelegramJoin(ctx, table_name, username, account_id)
    \/ \E ctx \in TelegramContexts : TelegramLeave(ctx)
    \/ \E ctx \in TelegramContexts, parts \in TransactionTexts :
            TelegramTransaction(ctx, parts)
    \/ \E ctx \in DiscordContexts, table_name \in TableNames :
            DiscordNew(ctx, table_name)
    \/ \E ctx \in DiscordContexts, table_name \in TableNames,
          username \in Usernames :
            \E account_id \in NewIdsFor(username) :
                DiscordJoin(ctx, table_name, username, account_id)
    \/ \E ctx \in DiscordContexts : DiscordLeave(ctx)
    \/ \E ctx \in DiscordContexts, amount \in Amounts,
          username \in Usernames \cup {NoneStr} :
            DiscordBuy(ctx, amount, username)
    \/ \E ctx \in DiscordContexts, amount \in Amounts,
          username \in Usernames \cup {NoneStr} :
            DiscordSell(ctx, amount, username)

SpecAdapters == Init /\ [][NextAdapters]_vars

(* ------------------------------ C19 ----------------------------------- *)

\* The users some identity is linked to: the users a chat exists for.
Reachable(db) == {db.identities[k] : k \in DOMAIN db.identities}

\* The notification has gone to its recipient: a message with its text was
\* sent to a chat whose identity is linked to the notification's user.
Delivered(db, sent, broadcast) ==
    \E i \in 1 .. Len(sent) :
        /\ sent[i].text = broadcast.text
        /\ sent[i].chat \in DOMAIN db.identities
        /\ db.identities[sent[i].chat] = broadcast.user_id

\* Every notification of a successful result whose user can be reached has
\* been delivered by the handler.
Forwarded(handled, result) ==
    result.success =>
        \A i \in 1 .. Len(result.broadcasts) :
            result.broadcasts[i].user_id \in Reachable(handled.world.db) =>
                Delivered(handled.world.db, handled.sent, result.broadcasts[i])

\* C19: a channel adapter forwards the notifications of a successful core
\* operation to their recipients: after a successful buy from or sale to
\* another player issued through the Telegram or the Discord adapter, every
\* notification of the result, the caller's and the counterparty's, has been
\* delivered (to each recipient that has a linked chat).
C19_AdapterDeliversEveryNotification ==
    /\ \A ctx \in TelegramContexts, amount \in Amounts, username \in Usernames :
          /\ Forwarded(handle_transaction(WORLD, ctx,
                           << "/buy", ToString(amount), username >>),
                       buy_chips_from_user(DB, ctx, amount, username).result)
          /\ Forwarded(handle_transaction(WORLD, ctx,
                           << "/sell", ToString(amount), username >>),
                       sell_chips_to_user(DB, ctx, amount, username).result)
    /\ \A ctx \in DiscordContexts, amount \in Amounts, username \in Usernames :
          /\ Forwarded(buy_cmd(WORLD, ctx, amount, username),
                       buy_chips_from_user(DB, ctx, amount, username).result)
          /\ Forwarded(sell_cmd(WORLD, ctx, amount, username),
                       sell_chips_to_user(DB, ctx, amount, username).result)

\* What the handlers do deliver: the first notification of the result, which
\* is the caller's, in the chat the command came from.
C19_CallerNotified ==
    /\ \A ctx \in TelegramContexts, amount \in Amounts, username \in Usernames :
          LET handled == handle_transaction(WORLD, ctx,
                             << "/buy", ToString(amount), username >>)
              result == buy_chips_from_user(DB, ctx, amount, username).result
          IN  result.success =>
                  /\ Len(handled.sent) = 1
                  /\ Delivered(handled.world.db, handled.sent, result.broadcasts[1])
    /\ \A ctx \in DiscordContexts, amount \in Amounts, username \in Usernames :
          LET handled == sell_cmd(WORLD, ctx, amount, username)
              result == sell_chips_to_user(DB, ctx, amount, username).result
          IN  result.success =>
                  /\ Len(handled.sent) = 1
                  /\ Delivered(handled.world.db, handled.sent, result.broadcasts[1])

\* The caller on Telegram buys from a user who is logged in on Discord: the
\* one message goes to the caller's chat, and the counterparty's notification
\* to nobody.
C19_CounterpartyNotNotified ==
    \E ctx \in TelegramContexts, username \in Usernames :
        LET handled == handle_transaction(WORLD, ctx, << "/buy", "1", username >>)
            result == buy_chips_from_user(DB, ctx, 1, username).result
        IN  /\ result.success
            /\ result.broadcasts[2].user_id \in Reachable(DB)
            /\ handled.sent = << Sent(Key(ctx), result.broadcasts[1].text) >>
            /\ ~ Delivered(handled.world.db, handled.sent, result.broadcasts[2])

(* ------------------------------ C21 ----------------------------------- *)

\* Every user of db1 is in db2 with the balance and the first name it had.
KeepsUsers(db1, db2) ==
    \A id \in DOMAIN db1.users :
        /\ id \in DOMAIN db2.users
        /\ db2.users[id].balance = db1.users[id].balance
        /\ db2.users[id].first_name = db1.users[id].first_name

\* C21: only the successful bank and player operations and confirm change a
\* balance. register_or_login_user (for the users that exist already),
\* logout_external_identity, initiate_buy_from_player, reject_buy_from_player
\* and every chip operation that fails leave the balance and the first name
\* of every existing user as they were; _get_logged_in_user returns a user of
\* the repositories or None and, being handed back no repository, writes
\* nothing.
C21_OnlyLedgerOperationsMoveBalances ==
    /\ \A ctx \in Contexts, username \in Usernames :
          \A account_id \in NewIdsFor(username) :
              KeepsUsers(DB, register_or_login_user(DB, ctx, username, account_id).db)
    /\ \A ctx \in Contexts :
          /\ KeepsUsers(DB, logout_external_identity(DB, ctx).db)
          /\ logout_external_identity(DB, ctx).db.users = users
          /\ _get_logged_in_user(DB, ctx) \in
                 {None} \cup {users[id] : id \in DOMAIN users}
    /\ \A ctx \in Contexts, amount \in Amounts :
          /\ initiate_buy_from_player(DB, ctx, amount).db = DB
          /\ \A out \in { buy_chips_from_bank(DB, ctx, amount),
                          sell_chips_to_bank(DB, ctx, amount) } :
                 ~ out.result.success => KeepsUsers(DB, out.db)
          /\ \A username \in Usernames :
                 \A out \in { buy_chips_from_user(DB, ctx, amount, username),
                              sell_chips_to_user(DB, ctx, amount, username) } :
                     ~ out.result.success => KeepsUsers(DB, out.db)
    /\ \A source_user_id \in Ids, target_user_id \in Ids, amount \in Amounts :
          LET out == confirm_buy_from_player(DB, source_user_id, target_user_id, amount)
          IN  /\ ~ out.result.success => KeepsUsers(DB, out.db)
              /\ KeepsUsers(DB, Outcome(DB, reject_buy_from_player(source_user_id,
                                    target_user_id, amount)).db)

\* A user who holds chips logs out and another identity logs in to the
\* account: the chips are still there afterwards.
C21_Witness ==
    \E ctx \in Contexts, other \in Contexts, username \in Usernames :
        /\ ctx # other
        /\ Linked(DB, ctx)
        /\ ~ Linked(DB, other)
        /\ get_by_username(DB, username) # None
        /\ get_by_username(DB, username).id = identities[Key(ctx)]
        /\ users[identities[Key(ctx)]].balance # 0
        /\ register_or_login_user(DB, other, username, NoneStr)
               .db.users[identities[Key(ctx)]].balance # 0
        /\ ~ buy_chips_from_user(DB, ctx, 1, username).result.success

(* ------------------------------ C22 ----------------------------------- *)

\* C22: no balance floor. buy_chips_from_bank, buy_chips_from_user (from
\* another existing user) and confirm_buy_from_player (between existing users)
\* with a positive amount succeed whatever the payer's balance is, and leave
\* the payer amount lower, below zero included: a user at 0 who buys amount
\* from the bank ends at -amount.
C22_NoBalanceFloor ==
    /\ \A ctx \in Contexts, amount \in Positive :
          Linked(DB, ctx) =>
              LET payer == identities[Key(ctx)]
                  bank == buy_chips_from_bank(DB, ctx, amount)
              IN  /\ bank.result.success
                  /\ bank.db.users[payer].balance = users[payer].balance - amount
                  /\ users[payer].balance = 0 =>
                         bank.db.users[payer].balance = -amount
                  /\ \A username \in Usernames \ OwnUsernames(DB, ctx) :
                         get_by_username(DB, username) # None =>
                             LET buy == buy_chips_from_user(DB, ctx, amount, username)
                             IN  /\ buy.result.success
                                 /\ buy.db.users[payer].balance
                                        = users[payer].balance - amount
    /\ \A source_user_id \in DOMAIN users, target_user_id \in DOMAIN users,
          amount \in Positive :
          LET confirm == confirm_buy_from_player(DB, source_user_id,
                                                 target_user_id, amount)
          IN  /\ confirm.result.success
              /\ source_user_id # target_user_id =>
                     confirm.db.users[source_user_id].balance
                         = users[source_user_id].balance - amount

\* A logged-in payer who is already in debt, with another user to buy from:
\* every purchase takes the payer further below zero.
C22_Witness ==
    \E ctx \in Contexts :
        /\ Linked(DB, ctx)
        /\ users[identities[Key(ctx)]].balance < 0
        /\ Cardinality(DOMAIN users) >= 2
        /\ buy_chips_from_bank(DB, ctx, MaxAmount).db
               .users[identities[Key(ctx)]].balance < -MaxAmount

(* ------------------------------ C25 ----------------------------------- *)

RECURSIVE SumOver(_, _)
SumOver(balances, ids) ==
    IF ids = {}
    THEN 0
    ELSE LET id == CHOOSE i \in ids : TRUE
         IN  balances[id].balance + SumOver(balances, ids \ {id})

\* The sum of all users' balances.
TotalBalance(db) == SumOver(db.users, DOMAIN db.users)

\* The amount a call has moved, if it succeeded.
Moved(out, amount) == IF out.result.success THEN amount ELSE 0

\* C25: the ledger without store failures. With no user the sum of the
\* balances is 0. A sell_chips_to_bank raises the sum by its amount when it
\* succeeds, a buy_chips_from_bank lowers it by its amount when it succeeds,
\* and nothing else changes it: not register_or_login_user, not
\* buy_chips_from_user, not sell_chips_to_user, not confirm_buy_from_player
\* (the source being the target included), not a call that fails. So after
\* any sequence of calls the sum is the total sold to the bank minus the total
\* bought from it.
C25_LedgerSum ==
    /\ users = << >> => TotalBalance(DB) = 0
    /\ \A ctx \in Contexts, amount \in Amounts :
          LET buy == buy_chips_from_bank(DB, ctx, amount)
              sell == sell_chips_to_bank(DB, ctx, amount)
          IN  /\ TotalBalance(buy.db) = TotalBalance(DB) - Moved(buy, amount)
              /\ TotalBalance(sell.db) = TotalBalance(DB) + Moved(sell, amount)
              /\ \A username \in Usernames :
                    /\ TotalBalance(buy_chips_from_user(DB, ctx, amount, username).db)
                           = TotalBalance(DB)
                    /\ TotalBalance(sell_chips_to_user(DB, ctx, amount, username).db)
                           = TotalBalance(DB)
                    /\ \A account_id \in NewIdsFor(username) :
                           TotalBalance(register_or_login_user(DB, ctx, username,
                                                               account_id).db)
                               = TotalBalance(DB)
    /\ \A source_user_id \in Ids, target_user_id \in Ids, amount \in Amounts :
          TotalBalance(confirm_buy_from_player(DB, source_user_id,
                                               target_user_id, amount).db)
              = TotalBalance(DB)

\* Chips are out (the sum is not 0) with two users holding different
\* balances, and a confirm from a user to themself succeeds.
C25_Witness ==
    \E id \in DOMAIN users, other \in DOMAIN users :
        /\ TotalBalance(DB) # 0
        /\ users[id].balance # users[other].balance
        /\ confirm_buy_from_player(DB, id, id, 1).result.success
        /\ confirm_buy_from_player(DB, id, other, 1).result.success

(* ------------------------------ C27 ----------------------------------- *)

\* The result carries one notification for each known user.
OnePerUser(db, result) ==
    /\ Len(result.broadcasts) = Cardinality(DOMAIN db.users)
    /\ {result.broadcasts[i].user_id : i \in 1 .. Len(result.broadcasts)}
           = DOMAIN db.users

\* C27: on a successful buy_chips_from_bank or sell_chips_to_bank all users
\* are notified of the transaction: the result has one notification for every
\* known user.
C27_BankOperationNotifiesAll ==
    \A ctx \in Contexts, amount \in Amounts :
        LET buy == buy_chips_from_bank(DB, ctx, amount)
            sell == sell_chips_to_bank(DB, ctx, amount)
        IN  /\ buy.result.success => OnePerUser(buy.db, buy.result)
            /\ sell.result.success => OnePerUser(sell.db, sell.result)

\* Three users exist and one of them buys from the bank: the result has the
\* caller's notification and no other.
C27_OnlyCallerNotified ==
    \E ctx \in Contexts :
        LET buy == buy_chips_from_bank(DB, ctx, 1)
        IN  /\ Cardinality(DOMAIN users) = 3
            /\ buy.result.success
            /\ Len(buy.result.broadcasts) = 1
            /\ buy.result.broadcasts[1].user_id = identities[Key(ctx)]

(* ------------------------------ C28 ----------------------------------- *)

\* C28: every table-membership row refers to a table that exists: after any
\* sequence of /new, /join and !join commands no user is a member of a table
\* name that was never created.
C28_MembershipsReferToTables ==
    \A row \in memberships : row[1] \in tables

\* A user is a member of a table while no table has been created at all.
C28_MemberOfNoTable ==
    /\ tables = {}
    /\ \E row \in memberships : row[2] \in DOMAIN users

(* ----------------------- the proposal workflow ------------------------ *)

\* The successful initiates (by source and amount) the history records.
MaxInitiates == 2

\* offered is a history of the workflow, kept by this specification only: the
\* (source id, target id, amount) of every candidate a successful
\* initiate_buy_from_player has returned. The program keeps no such record.
Offers(result, amount) ==
    IF result.success
    THEN { << result.source_user.id, result.candidates[i].id, amount >> :
               i \in 1 .. Len(result.candidates) }
    ELSE {}

\* The initiates the history has room for.
Initiated(offers) == {<< offer[1], offer[3] >> : offer \in offers}

InitiateOffers(ctx, amount) ==
    LET out == initiate_buy_from_player(DB, ctx, amount)
    IN  /\ Cardinality(Initiated(offered \cup Offers(out.result, amount)))
               <= MaxInitiates
        /\ accounts' = out.db.accounts
        /\ users' = out.db.users
        /\ identities' = out.db.identities
        /\ offered' = offered \cup Offers(out.result, amount)
        /\ UNCHANGED <<tables, memberships, threads, applied>>

NextWorkflow ==
    \/ \E ctx \in Contexts, username \in Usernames, account_id \in FreshIds :
            Register(ctx, username, account_id)
    \/ \E ctx \in Contexts, username \in Usernames : Login(ctx, username)
    \/ \E ctx \in Contexts, amount \in Amounts : InitiateOffers(ctx, amount)
    \/ \E source_user_id \in Ids, target_user_id \in Ids, amount \in Amounts :
            Confirm(source_user_id, target_user_id, amount)
    \/ \E source_user_id \in Ids, target_user_id \in Ids, amount \in Amounts :
            Reject(source_user_id, target_user_id, amount)

SpecWorkflow == Init /\ [][NextWorkflow]_vars

(* ------------------------------ C26 ----------------------------------- *)

\* C26: Confirmed is reached only from Initiated: every successful
\* confirm_buy_from_player(source, target, amount) that changes a balance
\* comes after a successful initiate_buy_from_player by that source with that
\* amount which had the target among its candidates.
C26_ConfirmOnlyAfterInitiate ==
    [][\A source_user_id \in Ids, target_user_id \in Ids, amount \in Amounts :
          (Confirm(source_user_id, target_user_id, amount) /\ users' # users)
              => << source_user_id, target_user_id, amount >> \in offered]_vars

\* Chips have moved between two users and no initiate_buy_from_player has
\* ever succeeded.
C26_ConfirmedWithoutInitiate ==
    /\ offered = {}
    /\ \E id \in DOMAIN users : users[id].balance # 0

(* ------------------------- the listener threads ----------------------- *)

\* main runs the Telegram and the Discord listener in two threads over the
\* same repositories. A service is a sequence of repository calls with no lock
\* around it, so the calls of the two threads interleave: here each
\* repository call is one step, and threads[t] holds what the call in
\* progress on thread t has in its local variables.

\* The chat identity whose commands thread t handles.
ThreadContext(t) == CHOOSE ctx \in Contexts : ctx.provider \o "-bot" = t

\* The ids uuid4().hex has returned to a call still in progress.
HeldIds ==
    {threads[t].account_id : t \in {x \in Threads : threads[x].pc = "create_account"}}

\* One pending repository call user_repo.update_balance(user.id, delta), with
\* the User row the service read before it.
Update(user, delta) == [user |-> user, delta |-> delta]

\* The update_balance calls a service makes after its checks have passed,
\* in the order it makes them.
buy_chips_from_bank_updates(db, external_ctx, amount) ==
    IF buy_chips_from_bank(db, external_ctx, amount).result.success
    THEN << Update(_get_logged_in_user(db, external_ctx), -amount) >>
    ELSE << >>

sell_chips_to_bank_updates(db, external_ctx, amount) ==
    IF sell_chips_to_bank(db, external_ctx, amount).result.success
    THEN << Update(_get_logged_in_user(db, external_ctx), amount) >>
    ELSE << >>

buy_chips_from_user_updates(db, external_ctx, amount, counterparty_username) ==
    IF buy_chips_from_user(db, external_ctx, amount, counterparty_username).result.success
    THEN << Update(_get_logged_in_user(db, external_ctx), -amount),
            Update(get_user(db, get_by_username(db, counterparty_username).id), amount) >>
    ELSE << >>

sell_chips_to_user_updates(db, external_ctx, amount, counterparty_username) ==
    IF sell_chips_to_user(db, external_ctx, amount, counterparty_username).result.success
    THEN << Update(get_user(db, get_by_username(db, counterparty_username).id), -amount),
            Update(_get_logged_in_user(db, external_ctx), amount) >>
    ELSE << >>

\* A faulty write: the balance is computed from the row the service read.
ApplyUpdate_FromRead(db, update) ==
    IF update.user.id \in DOMAIN db.users
    THEN [db EXCEPT !.users[update.user.id].balance = update.user.balance + update.delta]
    ELSE db

\* The write of one pending call: the id of the row read and the delta go to
\* the repository, the balance read does not.
ApplyUpdate(db, update) == update_balance(db, update.user.id, update.delta)

\* The delta thread state th still has to apply to user id.
PendingFor(th, id) ==
    IF th.pc # "update_balance"
    THEN 0
    ELSE LET at == {i \in 1 .. Len(th.updates) : th.updates[i].user.id = id}
         IN  IF at = {} THEN 0 ELSE th.updates[CHOOSE i \in at : TRUE].delta

Above(n) == IF n > 0 THEN n ELSE 0

Below(n) == IF n < 0 THEN n ELSE 0

\* Whatever order the pending calls of ths are applied in, no balance leaves
\* -MaxBalance .. MaxBalance.
HasRoom(ths) ==
    \A id \in DOMAIN users :
        LET a == PendingFor(ths["telegram-bot"], id)
            b == PendingFor(ths["discord-bot"], id)
        IN  /\ users[id].balance + Above(a) + Above(b) <= MaxBalance
            /\ users[id].balance + Below(a) + Below(b) >= -MaxBalance

\* register_or_login_user up to and including the lookup by username.
RegisterBegin(t, username) ==
    /\ threads[t].pc = "idle"
    /\ LET existing == get_by_username(DB, username)
       IN  IF existing = None
           THEN \E account_id \in FreshIds \ HeldIds :
                    threads' = [threads EXCEPT ![t] =
                        [pc |-> "create_account", username |-> username,
                         account_id |-> account_id]]
           ELSE threads' = [threads EXCEPT ![t] =
                    [pc |-> "set_external_identity", username |-> username,
                     account_id |-> existing.id]]
    /\ UNCHANGED <<accounts, users, identities, tables, memberships, offered, applied>>

\* account_repo.create_account. When the other thread has created the
\* username in the meantime the store's contract, create(account), leaves
\* open what becomes of the second row: it is added, it replaces the first,
\* or the call raises and the handler ends.
CreateAccount(t) ==
    /\ threads[t].pc = "create_account"
    /\ LET account == Account(threads[t].account_id, threads[t].username, "")
           added == /\ accounts' = create_account(DB, account).accounts
                    /\ threads' = [threads EXCEPT ![t].pc = "add_user"]
           replaced == /\ accounts' = {a \in accounts : a.username # account.username}
                                          \cup {account}
                       /\ threads' = [threads EXCEPT ![t].pc = "add_user"]
           raised == /\ accounts' = accounts
                     /\ threads' = [threads EXCEPT ![t] = Idle]
       IN  IF get_by_username(DB, account.username) = None
           THEN added
           ELSE added \/ replaced \/ raised
    /\ UNCHANGED <<users, identities, tables, memberships, offered, applied>>

\* user_repo.add_user.
AddUser(t) ==
    /\ threads[t].pc = "add_user"
    /\ users' = add_user(DB, User(threads[t].account_id, threads[t].username, "", 0)).users
    /\ threads' = [threads EXCEPT ![t].pc = "set_external_identity"]
    /\ UNCHANGED <<accounts, identities, tables, memberships, offered, applied>>

\* identity_repo.set_external_identity, and the return.
SetExternalIdentity(t) ==
    /\ threads[t].pc = "set_external_identity"
    /\ identities' = set_external_identity(DB, ThreadContext(t).provider,
                         ThreadContext(t).provider_user_id, threads[t].account_id).identities
    /\ threads' = [threads EXCEPT ![t] = Idle]
    /\ UNCHANGED <<accounts, users, tables, memberships, offered, applied>>

\* A ledger service up to its first update_balance call: the checks and the
\* reads. A call that fails returns here.
Begins(t, updates) ==
    /\ threads[t].pc = "idle"
    /\ threads' = [threads EXCEPT ![t] =
            IF updates = << >> THEN Idle
            ELSE [pc |-> "update_balance", updates |-> updates]]
    /\ HasRoom(threads')
    /\ UNCHANGED <<accounts, users, identities, tables, memberships, offered, applied>>

BuyFromBankBegin(t, amount) ==
    Begins(t, buy_chips_from_bank_updates(DB, ThreadContext(t), amount))

SellToBankBegin(t, amount) ==
    Begins(t, sell_chips_to_bank_updates(DB, ThreadContext(t), amount))

BuyFromUserBegin(t, amount, counterparty_username) ==
    Begins(t, buy_chips_from_user_updates(DB, ThreadContext(t), amount,
                                          counterparty_username))

SellToUserBegin(t, amount, counterparty_username) ==
    Begins(t, sell_chips_to_user_updates(DB, ThreadContext(t), amount,
                                         counterparty_username))

\* The next update_balance call of thread t, and the return after the last.
\* applied adds up the deltas handed to the repository, per user.
UpdateBalance(t) ==
    /\ threads[t].pc = "update_balance"
    /\ LET update == Head(threads[t].updates)
           rest == Tail(threads[t].updates)
       IN  /\ users' = ApplyUpdate(DB, update).users
           /\ applied' = [applied EXCEPT ![update.user.id] = @ + update.delta]
           /\ threads' = [threads EXCEPT ![t] =
                   IF rest = << >> THEN Idle
                   ELSE [pc |-> "update_balance", updates |-> rest]]
    /\ UNCHANGED <<accounts, identities, tables, memberships, offered>>

\* The registration alone, call by call on both threads.
NextRegisterRace ==
    \/ \E t \in Threads, username \in Usernames : RegisterBegin(t, username)
    \/ \E t \in Threads : CreateAccount(t)
    \/ \E t \in Threads : AddUser(t)
    \/ \E t \in Threads : SetExternalIdentity(t)

SpecRegisterRace == Init /\ [][NextRegisterRace]_vars

\* The usernames the two threads' ledger operations are tried with.
Players == {"alice", "bob"}

\* register_or_login_user from call to return on thread t.
Joins(t, username) ==
    /\ threads[t].pc = "idle"
    /\ \/ \E account_id \in FreshIds : Register(ThreadContext(t), username, account_id)
       \/ Login(ThreadContext(t), username)

\* The ledger, call by call on both threads.
NextThreads ==
    \/ \E t \in Threads, username \in Players : Joins(t, username)
    \/ \E t \in Threads, amount \in Amounts : BuyFromBankBegin(t, amount)
    \/ \E t \in Threads, amount \in Amounts : SellToBankBegin(t, amount)
    \/ \E t \in Threads, amount \in Amounts, username \in Players :
           BuyFromUserBegin(t, amount, username)
    \/ \E t \in Threads, amount \in Amounts, username \in Players :
           SellToUserBegin(t, amount, username)
    \/ \E t \in Threads : UpdateBalance(t)

SpecThreads == Init /\ [][NextThreads]_vars

(* ------------------------------ C23 ----------------------------------- *)

\* The rows that carry a username.
AccountsNamed(username) == {a \in accounts : a.username = username}

UsersNamed(username) == {id \in DOMAIN users : users[id].first_name = username}

C23_TwoUsersOneUsername ==
    /\ \A t \in Threads : threads[t] = Idle
    /\ \E username \in Usernames : Cardinality(UsersNamed(username)) = 2

(* ------------------------------ C24 ----------------------------------- *)

\* C24: with update_balance atomic, no interleaving of the two threads'
\* ledger operations loses an update: every user's balance is the initial
\* balance, zero, plus the deltas handed to update_balance for that user;
\* in particular once every operation has completed.
C24_NoLostUpdate ==
    \A id \in DOMAIN users : users[id].balance = applied[id]

\* A thread has read a user's row, the other thread has changed that row
\* since, and the first thread's update is still to come.
C24_Witness ==
    \E t \in Threads :
        /\ threads[t].pc = "update_balance"
        /\ \E i \in 1 .. Len(threads[t].updates) :
               LET update == threads[t].updates[i]
               IN  /\ update.user.id \in DOMAIN users
                   /\ users[update.user.id].balance # update.user.balance

====
